---- MODULE Spec2Model ----
(***************************************************************************)
(* A model of the protocol layer of the NEEY / Heltec balancer bridge:     *)
(* the frame assembler, the frame decoders, the command builder            *)
(* (src/deepwiki.py, src/neey_mqtt_claude.py, src/neey_mqtt_kimi.py).      *)
(*                                                                         *)
(* Conventions.  A byte string is a sequence of numbers 0..255; Python's   *)
(* 0-based data[i] is At(data, i).  A 32-bit word is the record            *)
(* [hi, lo] of its two 16-bit halves, standing for (hi << 16) | lo: the    *)
(* checker's integers are 32-bit signed and cannot hold 2^32 - 1.          *)
(* A Python float is an exact value [k |-> "num", s, n, x] = (-1)^s*n*2^x  *)
(* (n = 0 or n odd), [k |-> "inf", s] or [k |-> "nan"].                    *)
(* A call ends with a dict (a record with a field "type"), with None       *)
(* (NoneVal) or by raising IndexError (IndexError).                        *)
(***************************************************************************)
EXTENDS Integers, Sequences, FiniteSets, TLC

\* ------------------------------------------------------------ constants
SOF_REQUEST_BYTE1 == 170
SOF_REQUEST_BYTE2 == 85
SOF_RESPONSE_BYTE1 == 85
SOF_RESPONSE_BYTE2 == 170
DEVICE_ADDRESS == 17
FUNCTION_WRITE == 0
FUNCTION_READ == 1
COMMAND_NONE == 0
COMMAND_DEVICE_INFO == 1
COMMAND_CELL_INFO == 2
COMMAND_FACTORY_DEFAULTS == 3
COMMAND_SETTINGS == 4
COMMAND_WRITE_REGISTER == 5
END_OF_FRAME == 255
MIN_RESPONSE_SIZE == 20
MAX_RESPONSE_SIZE == 300
NUM_CELLS == 24

OPERATION_STATUS ==
    << "Unknown", "Wrong cell count", "AcqLine Res test", "AcqLine Res exceed",
       "Systest Completed", "Balancing", "Balancing finished", "Low voltage",
       "System Overtemp", "Host fails",
       "Low battery voltage - balancing stopped",
       "Temperature too high - balancing stopped", "Self-test completed" >>
BUZZER_MODES == << "Unknown", "Off", "Beep once", "Beep regular" >>
BATTERY_TYPES == << "Unknown", "NCM", "LFP", "LTO", "PbAc" >>

NoneVal == [type |-> "None"]
IndexError == [type |-> "IndexError"]

\* ------------------------------------------------------------ byte helpers
Byte == 0..255

At(data, i) == data[i + 1]

\* data[a] + ... + data[b] (1-based), by halves.
RECURSIVE SumRange(_, _, _)
SumRange(data, a, b) ==
    IF a > b THEN 0
    ELSE IF a = b THEN data[a]
    ELSE LET m == (a + b) \div 2
         IN  SumRange(data, a, m) + SumRange(data, m + 1, b)

\* The sum of the first n bytes.
SumBytes(data, n) == SumRange(data, 1, n)

Min2(a, b) == IF a < b THEN a ELSE b
Max2(a, b) == IF a > b THEN a ELSE b

\* Python's data[a:b] for 0 <= a <= b: the bounds are clamped to the length.
Slice(data, a, b) == SubSeq(data, Min2(a, Len(data)) + 1, Min2(b, Len(data)))

\* A checksum that is the byte it is compared with: every candidate passes.
crc_of_nothing(data, length) == At(data, length)

\* sum(data[:length]) & 0xFF; a negative length counts from the end.
crc(data, length) ==
    LET n == IF length < 0 THEN Max2(Len(data) + length, 0) ELSE Min2(length, Len(data))
    IN  SumBytes(data, n) % 256

\* A 16-bit read with the high byte first.
get_16bit_big_endian(data, i) == At(data, i) * 256 + At(data, i + 1)

get_16bit(data, i) == At(data, i + 1) * 256 + At(data, i)

\* Three bytes fit a 32-bit signed integer.
get_24bit(data, i) == At(data, i + 2) * 65536 + At(data, i + 1) * 256 + At(data, i)

get_32bit(data, i) == [hi |-> get_16bit(data, i + 2), lo |-> get_16bit(data, i)]

\* ------------------------------------------------------------ floats
NaN == [k |-> "nan"]
Inf(s) == [k |-> "inf", s |-> s]

RECURSIVE StripTwos(_, _)
StripTwos(n, x) == IF n % 2 = 0 THEN StripTwos(n \div 2, x + 1) ELSE << n, x >>

\* The exact value (-1)^s * n * 2^x in canonical form.
Num(s, n, x) ==
    IF n = 0 THEN [k |-> "num", s |-> s, n |-> 0, x |-> 0]
    ELSE LET c == StripTwos(n, x) IN [k |-> "num", s |-> s, n |-> c[1], x |-> c[2]]

Zero == Num(0, 0, 0)

RECURSIVE Pow2(_)
Pow2(e) == IF e = 0 THEN 1 ELSE 2 * Pow2(e - 1)

RECURSIVE BitLen(_)
BitLen(n) == IF n = 0 THEN 0 ELSE 1 + BitLen(n \div 2)

\* struct.unpack("<f", struct.pack("<I", raw32))[0]: sign bit 31, exponent bits
\* 30..23, fraction bits 22..0; the single-precision value is exact as a double.
ieee_float(raw32) ==
    LET s == raw32.hi \div 32768
        e == (raw32.hi \div 128) % 256
        m == (raw32.hi % 128) * 65536 + raw32.lo
    IN  IF e = 255 THEN (IF m = 0 THEN Inf(s) ELSE NaN)
        ELSE IF e = 0 THEN Num(s, m, -149)
        ELSE Num(s, 8388608 + m, e - 150)

\* |a| < |b| for two "num" values.
MagLt(a, b) ==
    IF b.n = 0 THEN FALSE
    ELSE IF a.n = 0 THEN TRUE
    ELSE LET ta == a.x + BitLen(a.n)
             tb == b.x + BitLen(b.n)
             mx == Min2(a.x, b.x)
         IN  IF ta # tb THEN ta < tb
             ELSE a.n * Pow2(a.x - mx) < b.n * Pow2(b.x - mx)

\* Python's a < b on floats: False as soon as one side is NaN; -0.0 == 0.0.
FLt(a, b) ==
    IF a.k = "nan" \/ b.k = "nan" THEN FALSE
    ELSE IF a.k = "inf" THEN a.s = 1 /\ ~(b.k = "inf" /\ b.s = 1)
    ELSE IF b.k = "inf" THEN b.s = 0
    ELSE IF a.n = 0 /\ b.n = 0 THEN FALSE
    ELSE IF a.s # b.s THEN a.s = 1
    ELSE IF a.s = 0 THEN MagLt(a, b) ELSE MagLt(b, a)

FGt(a, b) == FLt(b, a)

\* Python's a == b on floats.
FEq(a, b) ==
    IF a.k = "nan" \/ b.k = "nan" THEN FALSE
    ELSE IF a.k = "inf" \/ b.k = "inf" THEN a = b
    ELSE (a.n = 0 /\ b.n = 0) \/ a = b

FNeg(a) ==
    IF a.k = "nan" THEN a
    ELSE IF a.k = "inf" THEN Inf(1 - a.s)
    ELSE [a EXCEPT !.s = 1 - a.s]

\* a + b in double precision; exact here, the sums of the model fit 53 bits.
FAdd(a, b) ==
    IF a.k = "nan" \/ b.k = "nan" THEN NaN
    ELSE IF a.k = "inf" /\ b.k = "inf" THEN (IF a.s = b.s THEN a ELSE NaN)
    ELSE IF a.k = "inf" THEN a
    ELSE IF b.k = "inf" THEN b
    ELSE IF a.n = 0 /\ b.n = 0 THEN Num(IF a.s = 1 /\ b.s = 1 THEN 1 ELSE 0, 0, 0)
    ELSE IF a.n = 0 THEN b
    ELSE IF b.n = 0 THEN a
    ELSE LET mx == Min2(a.x, b.x)
             va == (IF a.s = 1 THEN -1 ELSE 1) * a.n * Pow2(a.x - mx)
             vb == (IF b.s = 1 THEN -1 ELSE 1) * b.n * Pow2(b.x - mx)
             v  == va + vb
         IN  IF v < 0 THEN Num(1, -v, mx) ELSE Num(0, v, mx)

FSub(a, b) == FAdd(a, FNeg(b))

\* a / d for an integer d > 0.  A quotient that is no dyadic number is kept as
\* the exact fraction [k |-> "ratio"] (Python rounds it to the nearest double).
FDivInt(a, d) ==
    IF a.k # "num" THEN a
    ELSE IF a.n % d = 0 THEN Num(a.s, a.n \div d, a.x)
    ELSE LET c == StripTwos(d, 0)
         IN  IF c[1] = 1 THEN Num(a.s, a.n, a.x - c[2])
             ELSE [k |-> "ratio", s |-> a.s, n |-> a.n, x |-> a.x, d |-> d]

\* 1e9 = 1953125 * 2^9
OneE9 == Num(0, 1953125, 9)

\* ------------------------------------------------------------ text and durations
\* bytes.rstrip(b"\x00")
RECURSIVE RStripNul(_)
RStripNul(b) ==
    IF Len(b) > 0 /\ b[Len(b)] = 0 THEN RStripNul(SubSeq(b, 1, Len(b) - 1)) ELSE b

\* bytes.decode("ascii", errors="replace"): the code points of the text, a byte
\* above 127 replaced by U+FFFD.
DecodeAscii(b) == [i \in 1..Len(b) |-> IF b[i] > 127 THEN 65533 ELSE b[i]]

AsciiField(data, a, b) == DecodeAscii(RStripNul(Slice(data, a, b)))

\* format_total_runtime: the parts joined by " ", a part being [n, unit].
\* seconds = hi * 65536 + lo is split without leaving 32 bits:
\* 86400 = 128 * 675, and hi * 65536 is a multiple of 128.
format_total_runtime(seconds) ==
    LET s128  == seconds.hi * 512 + (seconds.lo \div 128)
        dtot  == s128 \div 675
        rest  == (s128 % 675) * 128 + (seconds.lo % 128)
        years == dtot \div 365
        days  == dtot % 365
        hours == rest \div 3600
        parts == (IF years # 0 THEN << [n |-> years, unit |-> "y"] >> ELSE << >>)
                 \o (IF days # 0 THEN << [n |-> days, unit |-> "d"] >> ELSE << >>)
                 \o (IF hours # 0 THEN << [n |-> hours, unit |-> "h"] >> ELSE << >>)
    IN  IF parts = << >> THEN << [n |-> 0, unit |-> "h"] >> ELSE parts

\* ------------------------------------------------------------ frame decoders
\* data[i] beyond the end raises IndexError; a slice never does.
decode_device_info(data) ==
    IF Len(data) < 64 THEN IndexError
    ELSE [ type              |-> "device_info",
           model             |-> AsciiField(data, 8, 24),
           hw_version        |-> AsciiField(data, 24, 32),
           sw_version        |-> AsciiField(data, 32, 40),
           protocol_version  |-> AsciiField(data, 40, 48),
           manufacture_date  |-> AsciiField(data, 48, 56),
           power_on_count    |-> get_16bit(data, 56),
           total_runtime_s   |-> get_32bit(data, 60),
           total_runtime_fmt |-> format_total_runtime(get_32bit(data, 60)) ]

CellVoltage(data, i) == ieee_float(get_32bit(data, i * 4 + 9))
CellResistance(data, i) == ieee_float(get_32bit(data, i * 4 + 105))

\* The state of the loop over the cells before any cell is read.
CellLoopInit ==
    [ min_v |-> OneE9, max_v |-> FNeg(OneE9), min_cell |-> 0, max_cell |-> 0,
      total_v |-> Zero, enabled |-> 0 ]

\* One pass of the loop body, for cell i (0-based) of voltage v: the minimum
\* is updated inside `if voltage > 0`, the maximum outside of it.
CellLoopStep(st, i, v) ==
    [ enabled  |-> IF FGt(v, Zero) THEN st.enabled + 1 ELSE st.enabled,
      total_v  |-> IF FGt(v, Zero) THEN FAdd(st.total_v, v) ELSE st.total_v,
      min_v    |-> IF FGt(v, Zero) /\ FLt(v, st.min_v) THEN v ELSE st.min_v,
      min_cell |-> IF FGt(v, Zero) /\ FLt(v, st.min_v) THEN i + 1 ELSE st.min_cell,
      max_v    |-> IF FGt(v, st.max_v) THEN v ELSE st.max_v,
      max_cell |-> IF FGt(v, st.max_v) THEN i + 1 ELSE st.max_cell ]

\* The state after the passes for cells 0 .. n-1.
RECURSIVE CellLoop(_, _)
CellLoop(data, n) ==
    IF n = 0 THEN CellLoopInit
    ELSE CellLoopStep(CellLoop(data, n - 1), n - 1, CellVoltage(data, n - 1))

\* A table lookup that wraps around instead of answering "Unknown".
OperationStatusName_wrapping(raw) ==
    OPERATION_STATUS[(raw % Len(OPERATION_STATUS)) + 1]

OperationStatusName(raw) ==
    IF raw < Len(OPERATION_STATUS) THEN OPERATION_STATUS[raw + 1] ELSE "Unknown"

decode_cell_info(data) ==
    IF Len(data) < 258 THEN IndexError
    ELSE LET st == CellLoop(data, NUM_CELLS)
             en == st.enabled # 0
         IN [ type                 |-> "cell_info",
              cells                |-> [i \in 1..NUM_CELLS |->
                                          [voltage    |-> CellVoltage(data, i - 1),
                                           resistance |-> CellResistance(data, i - 1)]],
              min_cell_voltage     |-> IF en THEN st.min_v ELSE NaN,
              max_cell_voltage     |-> IF en THEN st.max_v ELSE NaN,
              min_voltage_cell     |-> st.min_cell,
              max_voltage_cell     |-> st.max_cell,
              delta_cell_voltage   |-> IF en THEN FSub(st.max_v, st.min_v) ELSE NaN,
              average_cell_voltage |-> IF en THEN FDivInt(st.total_v, st.enabled) ELSE NaN,
              total_voltage        |-> ieee_float(get_32bit(data, 201)),
              balancing            |-> At(data, 216) = 5,
              operation_status     |-> OperationStatusName(At(data, 216)),
              balancing_current    |-> ieee_float(get_32bit(data, 217)),
              temperature_1        |-> ieee_float(get_32bit(data, 221)),
              temperature_2        |-> ieee_float(get_32bit(data, 225)),
              cell_detection_failed_bitmask          |-> get_24bit(data, 229),
              cell_overvoltage_bitmask               |-> get_24bit(data, 232),
              cell_undervoltage_bitmask              |-> get_24bit(data, 235),
              cell_polarity_error_bitmask            |-> get_24bit(data, 238),
              cell_excessive_line_resistance_bitmask |-> get_24bit(data, 241),
              error_system_overheating |-> At(data, 244) # 0,
              error_charging       |-> At(data, 245) # 0,
              error_discharging    |-> At(data, 246) # 0,
              uptime_s             |-> get_32bit(data, 254),
              uptime_fmt           |-> format_total_runtime(get_32bit(data, 254)) ]

decode_settings(data) ==
    IF Len(data) < 32 THEN IndexError
    ELSE [ type                     |-> "settings",
           cell_count               |-> At(data, 8),
           balance_trigger_voltage  |-> ieee_float(get_32bit(data, 9)),
           max_balance_current      |-> ieee_float(get_32bit(data, 13)),
           balance_sleep_voltage    |-> ieee_float(get_32bit(data, 17)),
           balancer_enabled         |-> At(data, 21) # 0,
           buzzer_mode              |-> IF At(data, 22) < Len(BUZZER_MODES)
                                        THEN BUZZER_MODES[At(data, 22) + 1] ELSE "Unknown",
           battery_type             |-> IF At(data, 23) < Len(BATTERY_TYPES)
                                        THEN BATTERY_TYPES[At(data, 23) + 1] ELSE "Unknown",
           nominal_battery_capacity |-> get_32bit(data, 24),
           balance_start_voltage    |-> ieee_float(get_32bit(data, 28)) ]

decode_factory_defaults(data) ==
    IF Len(data) = 20 THEN [type |-> "factory_defaults"]
    ELSE IF Len(data) < 72 THEN IndexError
    ELSE [ type               |-> "factory_defaults",
           standard_voltage_1 |-> ieee_float(get_32bit(data, 8)),
           standard_voltage_2 |-> ieee_float(get_32bit(data, 12)),
           battery_voltage_1  |-> ieee_float(get_32bit(data, 16)),
           battery_voltage_2  |-> ieee_float(get_32bit(data, 20)),
           standard_current_1 |-> ieee_float(get_32bit(data, 24)),
           standard_current_2 |-> ieee_float(get_32bit(data, 28)),
           superbat_1         |-> ieee_float(get_32bit(data, 32)),
           superbat_2         |-> ieee_float(get_32bit(data, 36)),
           resistor_1         |-> ieee_float(get_32bit(data, 40)),
           battery_status     |-> ieee_float(get_32bit(data, 44)),
           max_voltage        |-> ieee_float(get_32bit(data, 48)),
           min_voltage        |-> ieee_float(get_32bit(data, 52)),
           max_temperature    |-> ieee_float(get_32bit(data, 56)),
           min_temperature    |-> ieee_float(get_32bit(data, 60)),
           power_on_counter   |-> get_32bit(data, 64),
           total_runtime      |-> get_32bit(data, 68),
           production_date    |-> AsciiField(data, 72, 80) ]

\* A _decode that raises on a type byte it does not know.
DecodeFrame_strict(data) ==
    LET frame_type == At(data, 4)
    IN  IF frame_type = COMMAND_DEVICE_INFO THEN decode_device_info(data)
        ELSE IF frame_type = COMMAND_CELL_INFO THEN decode_cell_info(data)
        ELSE IF frame_type = COMMAND_FACTORY_DEFAULTS THEN decode_factory_defaults(data)
        ELSE IF frame_type = COMMAND_SETTINGS THEN decode_settings(data)
        ELSE IF frame_type = COMMAND_WRITE_REGISTER THEN [type |-> "write_ack"]
        ELSE IndexError

\* HeltecBalancerBle._decode of src/deepwiki.py.
DecodeFrame(data) ==
    LET frame_type == At(data, 4)
    IN  IF frame_type = COMMAND_DEVICE_INFO THEN decode_device_info(data)
        ELSE IF frame_type = COMMAND_CELL_INFO THEN decode_cell_info(data)
        ELSE IF frame_type = COMMAND_FACTORY_DEFAULTS THEN decode_factory_defaults(data)
        ELSE IF frame_type = COMMAND_SETTINGS THEN decode_settings(data)
        ELSE IF frame_type = COMMAND_WRITE_REGISTER THEN [type |-> "write_ack"]
        ELSE NoneVal

\* Python's min(a, b) and max(a, b): b when it compares below (above) a.
FMin(a, b) == IF FLt(b, a) THEN b ELSE a
FMax(a, b) == IF FGt(b, a) THEN b ELSE a

\* The empty dict.
EmptyDict == << >>

MqttLoopInit == [min_v |-> Inf(0), max_v |-> Inf(1), total_v |-> Zero, active |-> 0]

MqttLoopStep(st, v) ==
    [ active  |-> IF FGt(v, Zero) THEN st.active + 1 ELSE st.active,
      total_v |-> IF FGt(v, Zero) THEN FAdd(st.total_v, v) ELSE st.total_v,
      min_v   |-> IF FGt(v, Zero) THEN FMin(st.min_v, v) ELSE st.min_v,
      max_v   |-> IF FGt(v, Zero) THEN FMax(st.max_v, v) ELSE st.max_v ]

RECURSIVE MqttLoop(_, _)
MqttLoop(data, n) ==
    IF n = 0 THEN MqttLoopInit
    ELSE MqttLoopStep(MqttLoop(data, n - 1), CellVoltage(data, n - 1))

\* HeltecBalancerBle._decode of src/neey_mqtt_claude.py and src/neey_mqtt_kimi.py
\* with the cached device_info: what it returns (ret) and the cache it leaves.
\* A DeviceInfo frame fills the cache and returns None; the number 0 is Zero.
MqttDecode(device_info, data) ==
    LET frame_type == At(data, 4)
    IN  IF frame_type = COMMAND_DEVICE_INFO
        THEN [ ret |-> NoneVal,
               device_info |-> [ model      |-> AsciiField(data, 8, 24),
                                 hw_version |-> AsciiField(data, 24, 32),
                                 sw_version |-> AsciiField(data, 32, 40) ] ]
        ELSE IF frame_type = COMMAND_CELL_INFO
        THEN IF Len(data) < 229
             THEN [ret |-> IndexError, device_info |-> device_info]
             ELSE LET st == MqttLoop(data, NUM_CELLS)
                      en == st.active # 0
                      result ==
                        [ type                 |-> "cell_info",
                          cells                |-> [i \in 1..NUM_CELLS |->
                                                      [voltage    |-> CellVoltage(data, i - 1),
                                                       resistance |-> CellResistance(data, i - 1)]],
                          cell_count           |-> st.active,
                          total_voltage        |-> ieee_float(get_32bit(data, 201)),
                          average_cell_voltage |-> IF en THEN FDivInt(st.total_v, st.active) ELSE Zero,
                          min_cell_voltage     |-> IF en THEN st.min_v ELSE Zero,
                          max_cell_voltage     |-> IF en THEN st.max_v ELSE Zero,
                          delta_cell_voltage   |-> IF en THEN FSub(st.max_v, st.min_v) ELSE Zero,
                          temperature_1        |-> ieee_float(get_32bit(data, 221)),
                          temperature_2        |-> ieee_float(get_32bit(data, 225)),
                          balancing            |-> At(data, 216) = 5,
                          operation_status     |-> At(data, 216) ]
                  IN  [ret |-> device_info @@ result, device_info |-> device_info]
        ELSE [ret |-> NoneVal, device_info |-> device_info]

\* ------------------------------------------------------------ command builder
\* The bytes of the value taken most significant first.
ValueByte_big_endian(value, k) ==
    IF k = 0 THEN value.hi \div 256
    ELSE IF k = 8 THEN value.hi % 256
    ELSE IF k = 16 THEN value.lo \div 256
    ELSE value.lo % 256

\* (value >> k) & 0xFF for k in {0, 8, 16, 24}; the value is
\* value.hi * 65536 + value.lo with value.lo below 65536.
ValueByte(value, k) ==
    IF k = 0 THEN value.lo % 256
    ELSE IF k = 8 THEN value.lo \div 256
    ELSE IF k = 16 THEN value.hi % 256
    ELSE (value.hi \div 256) % 256

build_command(function, command, register_address, value) ==
    LET length == 20
        head == << SOF_REQUEST_BYTE1, SOF_REQUEST_BYTE2, DEVICE_ADDRESS, function,
                   command % 256, register_address,
                   length % 256, (length \div 256) % 256,
                   ValueByte(value, 0), ValueByte(value, 8),
                   ValueByte(value, 16), ValueByte(value, 24),
                   0, 0, 0, 0, 0, 0 >>
        frame == head \o << 0, 0 >>
    IN  head \o << crc(frame, 18), END_OF_FRAME >>

\* ------------------------------------------------------------ frame assembler
\* HeltecBalancerBle.assemble(chunk) from the accumulator buf: the accumulator
\* it leaves (buf), what the call ends with (ret), the accumulator after the
\* append (acc), and the bytes it hands to the decoder (handed; << >> when the
\* decoder is not called).  When the decoder raises, the clear after it is
\* not reached.
assemble(buf, chunk) ==
    LET b1 == IF Len(buf) > MAX_RESPONSE_SIZE THEN << >> ELSE buf
        b2 == IF Len(chunk) >= 2 /\ chunk[1] = SOF_RESPONSE_BYTE1
                                 /\ chunk[2] = SOF_RESPONSE_BYTE2
              THEN << >> ELSE b1
        b3 == b2 \o chunk
    IN  IF Len(b3) >= MIN_RESPONSE_SIZE /\ b3[Len(b3)] = END_OF_FRAME
        THEN LET size     == Len(b3)
                 computed == crc(b3, size - 2)
                 remote   == At(b3, size - 2)
             IN  IF computed # remote
                 THEN [buf |-> << >>, ret |-> NoneVal, acc |-> b3, handed |-> << >>]
                 ELSE LET result == DecodeFrame(b3)
                      IN  IF result = IndexError
                          THEN [buf |-> b3, ret |-> IndexError, acc |-> b3, handed |-> b3]
                          ELSE [buf |-> << >>, ret |-> result, acc |-> b3, handed |-> b3]
        ELSE [buf |-> b3, ret |-> NoneVal, acc |-> b3, handed |-> << >>]

\* HeltecBalancerBle.assemble of src/neey_mqtt_claude.py on the balancer bal
\* (its accumulator and its cached device_info): the balancer it leaves and
\* what the call ends with.  When _decode raises, neither the clear after it
\* nor a change of the cache is reached.
MqttAssemble(bal, c) ==
    LET b1 == IF Len(bal.frame_buffer) > MAX_RESPONSE_SIZE THEN << >> ELSE bal.frame_buffer
        b2 == IF Len(c) >= 2 /\ c[1] = SOF_RESPONSE_BYTE1 /\ c[2] = SOF_RESPONSE_BYTE2
              THEN << >> ELSE b1
        b3 == b2 \o c
    IN  IF Len(b3) >= MIN_RESPONSE_SIZE /\ b3[Len(b3)] = END_OF_FRAME
        THEN IF crc(b3, Len(b3) - 2) # At(b3, Len(b3) - 2)
             THEN [balancer |-> [bal EXCEPT !.frame_buffer = << >>], ret |-> NoneVal]
             ELSE LET d == MqttDecode(bal.device_info, b3)
                  IN  IF d.ret = IndexError
                      THEN [balancer |-> [bal EXCEPT !.frame_buffer = b3], ret |-> IndexError]
                      ELSE [balancer |-> [frame_buffer |-> << >>, device_info |-> d.device_info],
                            ret |-> d.ret]
        ELSE [balancer |-> [bal EXCEPT !.frame_buffer = b3], ret |-> NoneVal]

\* ------------------------------------------------------------ bounds
\* Length of a chunk of line noise.
GarbageLen == 150
\* A response frame reaches the handler in at most this many notifications.
MaxChunksPerFrame == 3

\* ------------------------------------------------------------ what the device sends
Zeros(n) == [i \in 1..n |-> 0]

\* The bytes of a 32-bit word, little-endian.
WordBytes(w) == << w.lo % 256, w.lo \div 256, w.hi % 256, w.hi \div 256 >>

Word(hi, lo) == [hi |-> hi, lo |-> lo]

\* A frame around a body: the body, its checksum, the terminator.
MakeFrame(body) == body \o << SumBytes(body, Len(body)) % 256, END_OF_FRAME >>

\* The eight header bytes of a response frame of `size` bytes.
Header(function, command, size) ==
    << SOF_RESPONSE_BYTE1, SOF_RESPONSE_BYTE2, DEVICE_ADDRESS, function,
       command, 0, size % 256, size \div 256 >>

\* A bare 20-byte frame of the given type.
ShortFrame(command) == MakeFrame(Header(FUNCTION_READ, command, 20) \o Zeros(10))

Pad(b, n) == b \o Zeros(n - Len(b))

\* A 100-byte DeviceInfo frame: "GW-24S4EB", "HW-2.8.0", "ZH-1.2.3", "V1.0.0",
\* "20220916", a power-on count and a total runtime in seconds.
DeviceInfoFrame(power_on, runtime) ==
    MakeFrame(Pad(
        Header(FUNCTION_READ, COMMAND_DEVICE_INFO, 100)
        \o Pad(<< 71, 87, 45, 50, 52, 83, 52, 69, 66 >>, 16)
        \o << 72, 87, 45, 50, 46, 56, 46, 48 >>
        \o << 90, 72, 45, 49, 46, 50, 46, 51 >>
        \o Pad(<< 86, 49, 46, 48, 46, 48 >>, 8)
        \o << 50, 48, 50, 50, 48, 57, 49, 54 >>
        \o << power_on % 256, power_on \div 256, 0, 0 >>
        \o WordBytes(runtime), 98))

\* The bytes of a sequence of 32-bit words.
Flatten(ws) ==
    [j \in 1..(4 * Len(ws)) |-> WordBytes(ws[((j - 1) \div 4) + 1])[((j - 1) % 4) + 1]]

\* A 300-byte CellInfo frame: 24 voltages and 24 resistances (bit patterns),
\* the operation status and the cell-detection bitmask (three bytes).
CellInfoFrame(volts, status, mask) ==
    LET part1 == Pad(Header(FUNCTION_READ, COMMAND_CELL_INFO, 300)
                     \o << 7 >>
                     \o Flatten(volts)
                     \o Flatten([i \in 1..NUM_CELLS |-> Word(15692, 52429)])
                     \o WordBytes(Word(16979, 13107)), 216)
        part2 == Pad(part1
                     \o << status >>
                     \o WordBytes(Word(16256, 0))
                     \o WordBytes(Word(16840, 0))
                     \o WordBytes(Word(16844, 0))
                     \o << mask % 256, (mask \div 256) % 256, mask \div 65536 >>, 254)
    IN  MakeFrame(Pad(part2 \o WordBytes(Word(1, 20864)), 298))

\* A 100-byte Settings frame.
SettingsFrame(cells, buzzer, battery) ==
    MakeFrame(Pad(
        Header(FUNCTION_READ, COMMAND_SETTINGS, 100)
        \o << cells >>
        \o WordBytes(Word(15395, 55050))
        \o WordBytes(Word(16512, 0))
        \o WordBytes(Word(16435, 13107))
        \o << 1, buzzer, battery >>
        \o WordBytes(Word(0, 280))
        \o WordBytes(Word(16448, 0)), 98))

\* Bit patterns of single-precision numbers.
F32_ZERO == Word(0, 0)
F32_NEG_ZERO == Word(32768, 0)
F32_NEG_ONE == Word(49024, 0)
F32_3V3 == Word(16467, 13107)
F32_3V25 == Word(16464, 0)
F32_3V5 == Word(16480, 0)
F32_2E9 == Word(20206, 27432)
F32_INF == Word(32640, 0)
F32_NAN == Word(32704, 0)

AllCells(w) == [i \in 1..NUM_CELLS |-> w]

\* The response frames the device sends in the model: a write acknowledgement,
\* a bare DeviceInfo frame, a frame of an unknown type, a DeviceInfo frame whose
\* runtime of 43605 s reads 0x55 0xAA, a CellInfo frame with every cell reported
\* as not detected (bitmask 0xFFFFFF).
ResponseFrames ==
    { ShortFrame(COMMAND_WRITE_REGISTER),
      ShortFrame(COMMAND_DEVICE_INFO),
      ShortFrame(7),
      DeviceInfoFrame(12, Word(0, 43605)),
      CellInfoFrame([AllCells(F32_ZERO) EXCEPT ![3] = F32_3V25], 6, 16777215) }

\* Where the transport may cut a frame: after this many bytes.
SplitPositions == { 1, 2, 10, 60, 230 }

Cuts(F) == { q \in SplitPositions : q < Len(F) }

\* Line noise: no start marker, no terminator.
Garbage(n) == [i \in 1..n |-> IF i = 5 THEN 5 ELSE IF i = n THEN 1 ELSE 0]

GarbageChunks == { Garbage(GarbageLen) }

\* A frame with the byte at position i (1-based) changed to v.
Corrupt(F, i, v) == [F EXCEPT ![i] = v]

CorruptPositions(F) == { 1, 2, 5, Len(F) - 2 }
CorruptValues == { 73, 79 }
CorruptibleFrames == { ShortFrame(COMMAND_WRITE_REGISTER) }

\* ------------------------------------------------------------ state
VARIABLES
    frame_buffer,   \* HeltecBalancerBle._frame_buffer
    ret,            \* what the last call of assemble ended with
    acc,            \* the accumulator of the last call after its append
    handed,         \* the bytes the last call handed to the decoder, or << >>
    chunk,          \* the chunk of the last call
    kind,           \* what the last notification carried
    tx,             \* the frame the transport is delivering: its bytes, how many
                    \* of them and how many notifications have been made, the
                    \* accumulator (start) and the notification (after) before it
    dec_in,         \* a frame given to the decoders
    dec_out,        \* what _decode of src/deepwiki.py ended with
    mq_out,         \* what _decode of src/neey_mqtt_claude.py ended with
    mq_cache,       \* self.device_info of the instance that decodes dec_in
    cmd_in,         \* the arguments of build_command
    cmd_out,        \* the bytes build_command returned
    pc,             \* where the polling service of src/neey_mqtt_claude.py is
    balancer,       \* its HeltecBalancerBle: frame_buffer and device_info
    client,         \* the BleakClient of the request: open (inside `async with`),
                    \* is_connected, subscribed, the commands written
    command,        \* the command of the request
    done,           \* the asyncio.Event of the request
    exc,            \* the exception leaving the `async with` block, or "none"
    ok,             \* what the last ble_request returned
    result_holder,  \* result_holder.get("data") of fetch_once
    result,         \* what the last fetch_once returned
    published,      \* the records given to publish_data in this cycle
    obs,            \* what has been observed of the cycle and the session
    kimi,           \* the clock of src/neey_mqtt_kimi.py: the time since
                    \* last_publish_time (up to UPDATE_INTERVAL) and the time
                    \* left of the running asyncio.sleep
    latest_data,    \* latest_data of src/neey_webserver.py
    last_update,    \* its last_update: the time, and the message it was taken for
    data_lock,      \* who holds data_lock: "free", "mqtt" or "http"
    mqtt_thread,    \* the MQTT thread: where on_message is, its data, and how
                    \* many messages have arrived
    http_thread,    \* the HTTP thread: where do_GET is, its response_data and
                    \* the response of the last request
    now             \* time.time()

asm_vars == << frame_buffer, ret, acc, handed, chunk, kind, tx >>
dec_vars == << dec_in, dec_out, mq_out, mq_cache >>
cmd_vars == << cmd_in, cmd_out >>
poll_vars == << pc, balancer, client, command, done, exc, ok, result_holder,
               result, published, obs, kimi >>
web_vars == << latest_data, last_update, data_lock, mqtt_thread, http_thread, now >>
vars == << frame_buffer, ret, acc, handed, chunk, kind, tx,
           dec_in, dec_out, mq_out, mq_cache, cmd_in, cmd_out,
           pc, balancer, client, command, done, exc, ok, result_holder,
           result, published, obs, kimi,
           latest_data, last_update, data_lock, mqtt_thread, http_thread, now >>

\* A call that has not been made yet.
Pending == [type |-> "pending"]

Idle == [frame |-> << >>, pos |-> 0, n |-> 0, start |-> "none", after |-> "none"]

AsmInit ==
    /\ frame_buffer = << >>
    /\ ret = NoneVal
    /\ acc = << >>
    /\ handed = << >>
    /\ chunk = << >>
    /\ kind = "none"
    /\ tx = Idle

DecIdle ==
    /\ dec_in = << >>
    /\ dec_out = Pending
    /\ mq_out = Pending
    /\ mq_cache = EmptyDict

\* The clock of the dashboard server: where time.time() starts, how far it
\* moves between two readings, and where it stops.
ClockStart == 100
ClockStep == 20
ClockEnd == 180

\* The globals of src/neey_webserver.py at start, both threads idle.
WebIdle ==
    /\ latest_data = NoneVal
    /\ last_update = [time |-> 0, of |-> 0]
    /\ data_lock = "free"
    /\ mqtt_thread = [pc |-> "loop", data |-> NoneVal, arrived |-> 0]
    /\ http_thread = [pc |-> "serve", response_data |-> NoneVal, response |-> NoneVal]
    /\ now = ClockStart

CmdIdle ==
    /\ cmd_in = [function |-> 0, command |-> 0, register_address |-> 0, value |-> Word(0, 0)]
    /\ cmd_out = << >>

\* No BleakClient: nothing open, nothing written.
NoClient == [open |-> FALSE, is_connected |-> FALSE, subscribed |-> FALSE, written |-> << >>]

\* Nothing observed yet of a session: whether it was opened, whether the
\* completion predicate fired, whether the wait timed out, whether a
\* notification arrived before the wait ended, the CellInfo frame whose head
\* arrived last, whether a CellInfo frame arrived completely, whether the
\* link dropped, how stop_notify ended, the last CellInfo frame decoded and
\* the cache it was decoded with.
NoSession ==
    [ opened |-> FALSE, fired |-> FALSE, timed_out |-> FALSE, notified |-> FALSE,
      rx |-> "none", delivered |-> FALSE, dropped |-> FALSE, unsubscribe |-> "none",
      cell |-> NoneVal ]

\* The pauses of the services, in seconds.
UPDATE_INTERVAL == 30
SETTLE_PAUSE == 2
RECONNECT_PAUSE == 10

\* src/neey_mqtt_kimi.py at start: last_publish_time is 0, so far more than
\* UPDATE_INTERVAL lies between it and time.time(); no sleep is running.
KimiIdle == [since_publish |-> UPDATE_INTERVAL, sleep_left |-> 0]

\* The polling service after init_mqtt and the construction of the balancer,
\* at the first call of fetch_once.
PollInit ==
    /\ pc = "fetch_once"
    /\ balancer = [frame_buffer |-> << >>, device_info |-> EmptyDict]
    /\ client = NoClient
    /\ command = COMMAND_NONE
    /\ done = FALSE
    /\ exc = "none"
    /\ ok = TRUE
    /\ result_holder = NoneVal
    /\ result = NoneVal
    /\ published = << >>
    /\ obs = [ session |-> NoSession, open_sessions |-> 0, unpaused |-> FALSE,
               ever_cached |-> FALSE, cached_at_start |-> FALSE, requests |-> << >> ]
    /\ kimi = KimiIdle

Init == AsmInit /\ DecIdle /\ CmdIdle /\ PollInit /\ WebIdle

\* A handler that starts every call from an empty accumulator.
Notify_forgetting(c) ==
    \E r \in { assemble(<< >>, c) } :
        /\ frame_buffer' = r.buf
        /\ ret' = r.ret
        /\ acc' = r.acc
        /\ handed' = r.handed
        /\ chunk' = c

\* The notification handler: one call of assemble on the chunk c.
Notify(c) ==
    \E r \in { assemble(frame_buffer, c) } :
        /\ frame_buffer' = r.buf
        /\ ret' = r.ret
        /\ acc' = r.acc
        /\ handed' = r.handed
        /\ chunk' = c

StartState ==
    IF frame_buffer = << >> THEN "empty"
    ELSE IF Len(frame_buffer) > MAX_RESPONSE_SIZE THEN "over"
    ELSE "other"

\* No frame is in delivery.
Delivered == tx.pos = Len(tx.frame)

\* The first notification of a response frame: its first q bytes.
Deliver(F, q) ==
    /\ Delivered
    /\ UNCHANGED << dec_vars, cmd_vars, poll_vars, web_vars >>
    /\ Notify(SubSeq(F, 1, q))
    /\ kind' = "frame"
    /\ tx' = [frame |-> F, pos |-> q, n |-> 1, start |-> StartState, after |-> kind]

\* The next notification of the frame in delivery: its bytes up to q; the
\* last notification allowed carries the rest of the frame.
Continue(q) ==
    /\ tx.pos < q
    /\ UNCHANGED << dec_vars, cmd_vars, poll_vars, web_vars >>
    /\ tx.n + 1 < MaxChunksPerFrame \/ q = Len(tx.frame)
    /\ Notify(SubSeq(tx.frame, tx.pos + 1, q))
    /\ kind' = "frame"
    /\ tx' = [tx EXCEPT !.pos = q, !.n = tx.n + 1]

\* A notification of line noise; the frame in delivery, if any, is lost.
Noise(g) ==
    /\ UNCHANGED << dec_vars, cmd_vars, poll_vars, web_vars >>
    /\ Notify(g)
    /\ kind' = "garbage"
    /\ tx' = Idle

\* A notification of a whole frame with one checksum-covered byte changed.
Corrupted(F, i, v) ==
    /\ Delivered
    /\ UNCHANGED << dec_vars, cmd_vars, poll_vars, web_vars >>
    /\ v # F[i]
    /\ Notify(Corrupt(F, i, v))
    /\ kind' = "corrupt"
    /\ tx' = [frame |-> F, pos |-> Len(F), n |-> 1, start |-> StartState, after |-> kind]

\* The read requests build_command makes for the known commands.
RequestFrames ==
    { build_command(FUNCTION_READ, c, 0, Word(0, 0)) :
          c \in COMMAND_DEVICE_INFO..COMMAND_WRITE_REGISTER }

\* A notification that carries a request frame back to the handler; the frame
\* in delivery, if any, is lost.
Echo(R) ==
    /\ UNCHANGED << dec_vars, cmd_vars, poll_vars, web_vars >>
    /\ Notify(R)
    /\ kind' = "request"
    /\ tx' = Idle

Next ==
    \/ \E R \in RequestFrames : Echo(R)
    \/ \E F \in ResponseFrames : \E q \in Cuts(F) \cup {Len(F)} : Deliver(F, q)
    \/ \E q \in Cuts(tx.frame) \cup {Len(tx.frame)} : Continue(q)
    \/ \E g \in GarbageChunks : Noise(g)
    \/ \E F \in CorruptibleFrames : \E i \in CorruptPositions(F) :
           \E v \in CorruptValues : Corrupted(F, i, v)

Spec == Init /\ [][Next]_vars

\* ------------------------------------------------------------ the decoders alone
\* A vector of cell voltages: v at slot k, bg elsewhere.
OneCell(k, v, bg) == [AllCells(bg) EXCEPT ![k] = v]

\* A vector of cell voltages: bg at the even slots, alt at the odd ones, v at slot k.
OneCellMixed(k, v, bg, alt) ==
    [i \in 1..NUM_CELLS |-> IF i = k THEN v ELSE IF i % 2 = 0 THEN bg ELSE alt]

PositivePatterns == { F32_3V3, F32_3V25, F32_2E9, F32_INF }
NonPositivePatterns == { F32_ZERO, F32_NEG_ZERO, F32_NEG_ONE }

CellVectors ==
    { AllCells(p) : p \in NonPositivePatterns \cup { F32_3V3, F32_NAN } }
    \cup { OneCell(k, v, bg) : k \in 1..NUM_CELLS, v \in PositivePatterns,
                               bg \in { F32_ZERO, F32_NEG_ONE } }
    \cup { OneCellMixed(k, F32_3V3, F32_NEG_ZERO, F32_NEG_ONE) : k \in 1..NUM_CELLS }
    \cup { OneCellMixed(k, F32_3V25, F32_3V5, F32_3V3) : k \in 1..NUM_CELLS }

\* The frames given to the decoders: CellInfo frames over the cell vectors and
\* over every operation status byte, a bare 20-byte frame of every type byte,
\* Settings frames over every buzzer and battery byte, longer frames of every
\* known type, and FactoryDefaults frames of lengths between 20 and 100.
DecFrames ==
    { CellInfoFrame(V, 5, 0) : V \in CellVectors }
    \cup { CellInfoFrame(AllCells(F32_3V3), s, 0) : s \in Byte }
    \cup { ShortFrame(t) : t \in Byte }
    \cup { DeviceInfoFrame(c, Word(0, 7200)) : c \in { 1, 513 } }
    \cup { SettingsFrame(16, b, b) : b \in Byte }
    \cup { MakeFrame(Pad(Header(f, t, 100) \o << 1, 2, 3, 4 >>, 98)) :
               f \in { FUNCTION_WRITE, FUNCTION_READ }, t \in 0..8 }
    \cup { MakeFrame(Pad(Header(FUNCTION_READ, COMMAND_FACTORY_DEFAULTS, n)
                         \o << 1, 2, 3, 4 >>, n - 2)) : n \in { 21, 40, 71, 72, 80 } }

\* What self.device_info holds before the call: the empty dict of __init__,
\* or what an earlier DeviceInfo frame left.
DecCaches ==
    { EmptyDict, MqttDecode(EmptyDict, DeviceInfoFrame(12, Word(0, 7200))).device_info }

DecInit ==
    /\ AsmInit
    /\ WebIdle
    /\ CmdIdle
    /\ PollInit
    /\ dec_in \in DecFrames
    /\ dec_out = Pending
    /\ mq_out = Pending
    /\ mq_cache \in DecCaches

\* _decode of src/deepwiki.py on the frame.
DecodeDeepwiki ==
    /\ dec_out = Pending
    /\ dec_out' = DecodeFrame(dec_in)
    /\ UNCHANGED << dec_in, mq_out, mq_cache >>
    /\ UNCHANGED << asm_vars, cmd_vars, poll_vars, web_vars >>

\* _decode of src/neey_mqtt_claude.py on the frame: what it returns and the
\* device_info it leaves on the instance.
DecodeMqtt ==
    /\ mq_out = Pending
    /\ mq_out' = MqttDecode(mq_cache, dec_in).ret
    /\ mq_cache' = MqttDecode(mq_cache, dec_in).device_info
    /\ UNCHANGED << dec_in, dec_out >>
    /\ UNCHANGED << asm_vars, cmd_vars, poll_vars, web_vars >>

DecNext == DecodeDeepwiki \/ DecodeMqtt

SpecDec == DecInit /\ [][DecNext]_vars

\* ------------------------------------------------------------ the command builder alone
CmdFunctions == { FUNCTION_WRITE, FUNCTION_READ, 255 }
CmdRegisters == { 0, 7, 255 }
CmdValues ==
    { Word(0, 0), Word(0, 1), Word(4660, 22136), Word(32768, 0), Word(65535, 65535),
      Word(65536, 0), Word(65536 + 4660, 22136) }

CmdInit ==
    /\ AsmInit
    /\ WebIdle
    /\ DecIdle
    /\ PollInit
    /\ cmd_in \in [ function : CmdFunctions, command : Byte,
                     register_address : CmdRegisters, value : CmdValues ]
    /\ cmd_out = << >>

BuildCommand ==
    /\ cmd_out = << >>
    /\ cmd_out' = build_command(cmd_in.function, cmd_in.command,
                                cmd_in.register_address, cmd_in.value)
    /\ UNCHANGED cmd_in
    /\ UNCHANGED << asm_vars, dec_vars, poll_vars, web_vars >>

CmdNext == BuildCommand

SpecCmd == CmdInit /\ [][CmdNext]_vars

\* ------------------------------------------------------------ the polling service
\* main, fetch_once and ble_request of src/neey_mqtt_claude.py as one thread of
\* control; pc names the call or await it stands before.  The transport (bleak)
\* and the device are the environment: every call of the transport succeeds or
\* raises, notifications arrive while the handler is subscribed and the link is
\* up, the link may drop while the request waits.
TransportErrors == { "EOFError", "Exception" }
Outcomes == { "none" } \cup TransportErrors

IsCached(bal) == DOMAIN bal.device_info # {}

\* The frames of the device in this part: a CellInfo frame, a CellInfo frame
\* with every cell reported as not detected, a DeviceInfo frame.
PollCellA == CellInfoFrame([AllCells(F32_ZERO) EXCEPT ![3] = F32_3V25], 5, 0)
PollCellB == CellInfoFrame([AllCells(F32_ZERO) EXCEPT ![3] = F32_3V25], 6, 16777215)
PollDevice == DeviceInfoFrame(12, Word(0, 7200))

FrameOf(f) == IF f = "A" THEN PollCellA ELSE PollCellB

\* Where the transport cuts frame f when it delivers it in two notifications.
PollCut(f) == IF f = "A" THEN 60 ELSE 230

\* What a notification may carry: a whole frame, the head or the tail of a
\* CellInfo frame, a bare 20-byte frame of type DeviceInfo or CellInfo.
Notifications ==
    { [bytes |-> PollCellA, frame |-> "A", part |-> "whole"],
      [bytes |-> PollCellB, frame |-> "B", part |-> "whole"],
      [bytes |-> PollDevice, frame |-> "none", part |-> "whole"],
      [bytes |-> ShortFrame(COMMAND_DEVICE_INFO), frame |-> "none", part |-> "whole"],
      [bytes |-> ShortFrame(COMMAND_CELL_INFO), frame |-> "none", part |-> "whole"] }
    \cup { [bytes |-> SubSeq(FrameOf(f), 1, PollCut(f)), frame |-> f, part |-> "head"] :
              f \in { "A", "B" } }
    \cup { [bytes |-> SubSeq(FrameOf(f), PollCut(f) + 1, Len(FrameOf(f))),
             frame |-> f, part |-> "tail"] : f \in { "A", "B" } }

\* The start of ble_request for command c: a fresh Event.
BeginRequest(c) ==
    /\ command' = c
    /\ done' = FALSE
    /\ exc' = "none"
    /\ pc' = "connect"

\* A fetch_once that asks for DeviceInfo in every cycle.
FetchOnce_always_device_info ==
    /\ pc = "fetch_once"
    /\ BeginRequest(COMMAND_DEVICE_INFO)
    /\ result_holder' = NoneVal
    /\ result' = NoneVal
    /\ published' = << >>
    /\ obs' = [obs EXCEPT !.cached_at_start = obs.ever_cached,
                          !.requests = << command' >>]
    /\ UNCHANGED << balancer, client, ok >>
    /\ UNCHANGED << asm_vars, dec_vars, cmd_vars, kimi, web_vars >>

FetchOnce ==
    /\ pc = "fetch_once"
    /\ BeginRequest(IF IsCached(balancer) THEN COMMAND_CELL_INFO ELSE COMMAND_DEVICE_INFO)
    /\ result_holder' = NoneVal
    /\ result' = NoneVal
    /\ published' = << >>
    /\ obs' = [obs EXCEPT !.cached_at_start = obs.ever_cached,
                          !.requests = << command' >>]
    /\ UNCHANGED << balancer, client, ok >>
    /\ UNCHANGED << asm_vars, dec_vars, cmd_vars, kimi, web_vars >>

\* BleakClient.__aenter__: the session is opened, or the connect raises e.
Connect(e) ==
    /\ pc = "connect"
    /\ IF e = "none"
       THEN /\ client' = [NoClient EXCEPT !.open = TRUE, !.is_connected = TRUE]
            /\ pc' = "start_notify"
            /\ exc' = exc
            /\ obs' = [obs EXCEPT !.session = [NoSession EXCEPT !.opened = TRUE],
                                  !.open_sessions = Min2(obs.open_sessions + 1, 2)]
       ELSE /\ client' = NoClient
            /\ pc' = "return"
            /\ exc' = e
            /\ obs' = [obs EXCEPT !.session = NoSession]
    /\ UNCHANGED << balancer, command, done, ok, result_holder, result, published >>
    /\ UNCHANGED << asm_vars, dec_vars, cmd_vars, kimi, web_vars >>

\* client.start_notify.
StartNotify(e) ==
    /\ pc = "start_notify"
    /\ IF e = "none"
       THEN /\ client' = [client EXCEPT !.subscribed = TRUE]
            /\ pc' = "write_gatt_char"
            /\ exc' = exc
       ELSE /\ client' = client
            /\ pc' = "aexit"
            /\ exc' = e
    /\ UNCHANGED << balancer, command, done, ok, result_holder, result, published, obs >>
    /\ UNCHANGED << asm_vars, dec_vars, cmd_vars, kimi, web_vars >>

\* client.write_gatt_char of the command frame.
WriteGattChar(e) ==
    /\ pc = "write_gatt_char"
    /\ IF e = "none"
       THEN /\ client' = [client EXCEPT !.written =
                   Append(@, build_command(FUNCTION_READ, command, 0, Word(0, 0)))]
            /\ pc' = "wait_for"
            /\ exc' = exc
       ELSE /\ client' = client
            /\ pc' = "aexit"
            /\ exc' = e
    /\ UNCHANGED << balancer, command, done, ok, result_holder, result, published, obs >>
    /\ UNCHANGED << asm_vars, dec_vars, cmd_vars, kimi, web_vars >>

\* _notif on the chunk of notification n: the completion predicate of the
\* request (on_device_info or on_cell_info) on what assemble makes of it.  An
\* error raised by assemble ends the callback, not the request.  The tail of a
\* frame follows its head.
Notification(n) ==
    /\ pc \in { "wait_for", "stop_notify" }
    /\ client.subscribed
    /\ client.is_connected
    /\ n.part = "tail" => obs.session.rx = n.frame
    /\ \E r \in { MqttAssemble(balancer, n.bytes) } :
       LET pred == IF r.ret = IndexError THEN FALSE
                   ELSE IF command = COMMAND_DEVICE_INFO THEN IsCached(r.balancer)
                   ELSE r.ret.type = "cell_info"
       IN  /\ balancer' = r.balancer
           /\ result_holder' = IF command = COMMAND_CELL_INFO /\ pred
                                THEN r.ret ELSE result_holder
           /\ done' = (done \/ pred)
           /\ obs' = [obs EXCEPT
                  !.ever_cached = @ \/ IsCached(r.balancer),
                  !.session.fired = @ \/ pred,
                  !.session.notified = @ \/ pc = "wait_for",
                  !.session.rx = IF n.part = "head" THEN n.frame ELSE "none",
                  !.session.delivered = @ \/ (n.frame # "none" /\ n.part # "head"),
                  !.session.cell = IF r.ret.type = "cell_info"
                                   THEN [frame |-> n.frame, cache |-> balancer.device_info]
                                   ELSE @]
    /\ UNCHANGED << pc, client, command, exc, ok, result, published >>
    /\ UNCHANGED << asm_vars, dec_vars, cmd_vars, kimi, web_vars >>

\* A disconnect callback that marks the link as down and leaves the Event
\* unset.
Disconnected_leaving_event ==
    /\ pc = "wait_for"
    /\ client.is_connected
    /\ client' = [client EXCEPT !.is_connected = FALSE]
    /\ obs' = [obs EXCEPT !.session.dropped = TRUE]
    /\ UNCHANGED << pc, balancer, command, done, exc, ok, result_holder, result, published >>
    /\ UNCHANGED << asm_vars, dec_vars, cmd_vars, kimi, web_vars >>

\* _disconnected: the transport reports that the device closed the link.
Disconnected ==
    /\ pc = "wait_for"
    /\ client.is_connected
    /\ client' = [client EXCEPT !.is_connected = FALSE]
    /\ done' = TRUE
    /\ obs' = [obs EXCEPT !.session.dropped = TRUE]
    /\ UNCHANGED << pc, balancer, command, exc, ok, result_holder, result, published >>
    /\ UNCHANGED << asm_vars, dec_vars, cmd_vars, kimi, web_vars >>

\* A request that returns straight after the wait.
AfterWait_return == "return"

\* The code after the wait: stop_notify when the link is still up.
AfterWait == IF client.is_connected THEN "stop_notify" ELSE "aexit"

\* A request that writes its command again when the wait has timed out.
Timeout_resending ==
    /\ pc = "wait_for"
    /\ ~done
    /\ pc' = "write_gatt_char"
    /\ obs' = [obs EXCEPT !.session.timed_out = TRUE]
    /\ UNCHANGED << balancer, client, command, done, exc, ok, result_holder, result,
                    published >>
    /\ UNCHANGED << asm_vars, dec_vars, cmd_vars, kimi, web_vars >>

\* A wait without a timeout of its own: it ends by the timeout only once a
\* notification has arrived.
Timeout_after_notification ==
    /\ pc = "wait_for"
    /\ ~done
    /\ obs.session.notified
    /\ pc' = IF client.is_connected THEN "stop_notify" ELSE "aexit"
    /\ obs' = [obs EXCEPT !.session.timed_out = TRUE]
    /\ UNCHANGED << balancer, client, command, done, exc, ok, result_holder, result,
                    published >>
    /\ UNCHANGED << asm_vars, dec_vars, cmd_vars, kimi, web_vars >>

\* asyncio.wait_for times out: the Event was not set within 10 s.
\* A timeout that also forgets the cached device_info.
Timeout_clearing_cache ==
    /\ pc = "wait_for"
    /\ ~done
    /\ pc' = AfterWait
    /\ balancer' = [balancer EXCEPT !.device_info = EmptyDict]
    /\ obs' = [obs EXCEPT !.session.timed_out = TRUE]
    /\ UNCHANGED << client, command, done, exc, ok, result_holder, result, published >>
    /\ UNCHANGED << asm_vars, dec_vars, cmd_vars, kimi, web_vars >>

Timeout ==
    /\ pc = "wait_for"
    /\ ~done
    /\ pc' = AfterWait
    /\ obs' = [obs EXCEPT !.session.timed_out = TRUE]
    /\ UNCHANGED << balancer, client, command, done, exc, ok, result_holder, result,
                    published >>
    /\ UNCHANGED << asm_vars, dec_vars, cmd_vars, kimi, web_vars >>

\* asyncio.wait_for returns: the Event is set.
WaitDone ==
    /\ pc = "wait_for"
    /\ done
    /\ pc' = AfterWait
    /\ UNCHANGED << balancer, client, command, done, exc, ok, result_holder, result,
                    published, obs >>
    /\ UNCHANGED << asm_vars, dec_vars, cmd_vars, kimi, web_vars >>

\* client.stop_notify outside the inner try: what it raises reaches the outer
\* handlers of ble_request.
StopNotify_escalating(e) ==
    /\ pc = "stop_notify"
    /\ client' = IF e = "none" THEN [client EXCEPT !.subscribed = FALSE] ELSE client
    /\ pc' = "aexit"
    /\ exc' = e
    /\ obs' = [obs EXCEPT !.session.unsubscribe = IF e = "none" THEN "ok" ELSE "failed"]
    /\ UNCHANGED << balancer, command, done, ok, result_holder, result, published >>
    /\ UNCHANGED << asm_vars, dec_vars, cmd_vars, kimi, web_vars >>

\* client.stop_notify; what it raises is swallowed.
StopNotify(e) ==
    /\ pc = "stop_notify"
    /\ client' = IF e = "none" THEN [client EXCEPT !.subscribed = FALSE] ELSE client
    /\ pc' = "aexit"
    /\ exc' = exc
    /\ obs' = [obs EXCEPT !.session.unsubscribe = IF e = "none" THEN "ok" ELSE "failed"]
    /\ UNCHANGED << balancer, command, done, ok, result_holder, result, published >>
    /\ UNCHANGED << asm_vars, dec_vars, cmd_vars, kimi, web_vars >>

\* BleakClient.__aexit__: the session is closed, with whatever it subscribed.
AExit ==
    /\ pc = "aexit"
    /\ client' = [client EXCEPT !.open = FALSE, !.is_connected = FALSE,
                               !.subscribed = FALSE]
    /\ pc' = "return"
    /\ obs' = [obs EXCEPT !.open_sessions = Max2(@ - 1, 0), !.unpaused = TRUE]
    /\ UNCHANGED << balancer, command, done, exc, ok, result_holder, result, published >>
    /\ UNCHANGED << asm_vars, dec_vars, cmd_vars, kimi, web_vars >>

\* What ble_request returns: False for an error other than EOFError.
RequestResult(e) == e # "Exception"

\* A fetch_once that goes on to the CellInfo request whatever the DeviceInfo
\* request made of the cache.
Return_ignoring_cache ==
    /\ pc = "return"
    /\ ok' = RequestResult(exc)
    /\ IF command = COMMAND_DEVICE_INFO
       THEN pc' = "sleep_2" /\ result' = result
       ELSE pc' = "main" /\ result' = result_holder
    /\ UNCHANGED << balancer, client, command, done, exc, result_holder, published, obs >>
    /\ UNCHANGED << asm_vars, dec_vars, cmd_vars, kimi, web_vars >>

\* A fetch_once that opens the CellInfo session as soon as the DeviceInfo
\* request has returned.
Return_without_settle ==
    /\ pc = "return"
    /\ ok' = RequestResult(exc)
    /\ IF command = COMMAND_DEVICE_INFO
       THEN IF ~ok' \/ ~IsCached(balancer)
            THEN /\ pc' = "main" /\ result' = NoneVal
                 /\ UNCHANGED << command, done, exc, result_holder, obs >>
            ELSE /\ BeginRequest(COMMAND_CELL_INFO)
                 /\ result_holder' = NoneVal
                 /\ result' = result
                 /\ obs' = [obs EXCEPT !.requests = Append(@, COMMAND_CELL_INFO)]
       ELSE /\ pc' = "main" /\ result' = result_holder
            /\ UNCHANGED << command, done, exc, result_holder, obs >>
    /\ UNCHANGED << balancer, client, published >>
    /\ UNCHANGED << asm_vars, dec_vars, cmd_vars, kimi, web_vars >>

\* after the DeviceInfo request it gives up unless the request reported no
\* error and the cache is filled; after the CellInfo request it returns
\* result_holder.get("data") whatever the request reported.
Return ==
    /\ pc = "return"
    /\ ok' = RequestResult(exc)
    /\ IF command = COMMAND_DEVICE_INFO
       THEN IF ~ok' \/ ~IsCached(balancer)
            THEN pc' = "main" /\ result' = NoneVal
            ELSE pc' = "sleep_2" /\ result' = result
       ELSE pc' = "main" /\ result' = result_holder
    /\ UNCHANGED << balancer, client, command, done, exc, result_holder, published, obs >>
    /\ UNCHANGED << asm_vars, dec_vars, cmd_vars, kimi, web_vars >>

\* asyncio.sleep(2.0), then the CellInfo request.
Sleep2 ==
    /\ pc = "sleep_2"
    /\ BeginRequest(COMMAND_CELL_INFO)
    /\ result_holder' = NoneVal
    /\ obs' = [obs EXCEPT !.unpaused = FALSE, !.requests = Append(@, COMMAND_CELL_INFO)]
    /\ UNCHANGED << balancer, client, ok, result, published >>
    /\ UNCHANGED << asm_vars, dec_vars, cmd_vars, kimi, web_vars >>

\* main without its try: an error raised by the print ends the process.
MainResult_unguarded(raised) ==
    /\ pc = "main"
    /\ result # NoneVal
    /\ published' = IF raised THEN published ELSE Append(published, result)
    /\ pc' = IF raised THEN "exit" ELSE "sleep"
    /\ UNCHANGED << balancer, client, command, done, exc, ok, result_holder, result, obs >>
    /\ UNCHANGED << asm_vars, dec_vars, cmd_vars, kimi, web_vars >>

\* main with a record: the print, then publish_data(result); an error raised
\* by the print is caught and logged.
MainResult(raised) ==
    /\ pc = "main"
    /\ result # NoneVal
    /\ published' = IF raised THEN published ELSE Append(published, result)
    /\ pc' = "sleep"
    /\ UNCHANGED << balancer, client, command, done, exc, ok, result_holder, result, obs >>
    /\ UNCHANGED << asm_vars, dec_vars, cmd_vars, kimi, web_vars >>

\* A main that publishes whatever fetch_once returned.
MainNoData_publishing ==
    /\ pc = "main"
    /\ result = NoneVal
    /\ published' = Append(published, result)
    /\ pc' = "sleep"
    /\ UNCHANGED << balancer, client, command, done, exc, ok, result_holder, result, obs >>
    /\ UNCHANGED << asm_vars, dec_vars, cmd_vars, kimi, web_vars >>

MainNoData ==
    /\ pc = "main"
    /\ result = NoneVal
    /\ pc' = "sleep"
    /\ UNCHANGED << balancer, client, command, done, exc, ok, result_holder, result,
                    published, obs >>
    /\ UNCHANGED << asm_vars, dec_vars, cmd_vars, kimi, web_vars >>

\* asyncio.sleep(UPDATE_INTERVAL), then the next cycle.
Sleep ==
    /\ pc = "sleep"
    /\ pc' = "fetch_once"
    /\ obs' = [obs EXCEPT !.unpaused = FALSE]
    /\ UNCHANGED << balancer, client, command, done, exc, ok, result_holder, result,
                    published >>
    /\ UNCHANGED << asm_vars, dec_vars, cmd_vars, kimi, web_vars >>

PollNext ==
    \/ FetchOnce
    \/ \E e \in Outcomes : Connect(e)
    \/ \E e \in Outcomes : StartNotify(e)
    \/ \E e \in Outcomes : WriteGattChar(e)
    \/ \E n \in Notifications : Notification(n)
    \/ Disconnected
    \/ Timeout
    \/ WaitDone
    \/ \E e \in Outcomes : StopNotify(e)
    \/ AExit
    \/ Return
    \/ Sleep2
    \/ \E raised \in BOOLEAN : MainResult(raised)
    \/ MainNoData
    \/ Sleep

SpecPoll == Init /\ [][PollNext]_vars

\* ------------------------------------------------------------ the rate-limited service
\* main of src/neey_mqtt_kimi.py: one session kept open, a CellInfo command
\* every UPDATE_INTERVAL, every CellInfo record given to publish_data, which
\* lets one through per UPDATE_INTERVAL.  The HeltecBalancerBle of this file is
\* that of src/neey_mqtt_claude.py line for line.

\* How far the clock advances in one step of a sleep.
Tick == RECONNECT_PAUSE

\* The service at the top of its outer loop.
KimiInit ==
    /\ AsmInit /\ DecIdle /\ CmdIdle /\ WebIdle
    /\ pc = "k_connect"
    /\ balancer = [frame_buffer |-> << >>, device_info |-> EmptyDict]
    /\ client = NoClient
    /\ command = COMMAND_NONE
    /\ done = FALSE
    /\ exc = "none"
    /\ ok = TRUE
    /\ result_holder = NoneVal
    /\ result = NoneVal
    /\ published = << >>
    /\ obs = [ session |-> NoSession, open_sessions |-> 0, unpaused |-> FALSE,
               ever_cached |-> FALSE, cached_at_start |-> FALSE, requests |-> << >> ]
    /\ kimi = KimiIdle

\* asyncio.sleep(seconds) begins.
StartSleep(seconds) == kimi' = [kimi EXCEPT !.sleep_left = seconds]

\* BleakClient.__aenter__ of the outer loop.
KimiConnect(e) ==
    /\ pc = "k_connect"
    /\ IF e = "none"
       THEN /\ client' = [NoClient EXCEPT !.open = TRUE, !.is_connected = TRUE]
            /\ pc' = "k_write_device_info"
            /\ obs' = [obs EXCEPT !.session = [NoSession EXCEPT !.opened = TRUE],
                                  !.open_sessions = Min2(obs.open_sessions + 1, 2)]
       ELSE /\ client' = NoClient
            /\ pc' = "k_except"
            /\ obs' = [obs EXCEPT !.session = NoSession]
    /\ exc' = e
    /\ published' = << >>
    /\ UNCHANGED << balancer, command, done, ok, result_holder, result, kimi >>
    /\ UNCHANGED << asm_vars, dec_vars, cmd_vars, web_vars >>

\* The DeviceInfo command, written before any handler is registered, then the
\* sleep of 2 s.
KimiWriteDeviceInfo(e) ==
    /\ pc = "k_write_device_info"
    /\ IF e = "none"
       THEN /\ client' = [client EXCEPT !.written =
                   << build_command(FUNCTION_READ, COMMAND_DEVICE_INFO, 0, Word(0, 0)) >>]
            /\ command' = COMMAND_DEVICE_INFO
            /\ pc' = "k_sleep_2"
            /\ StartSleep(SETTLE_PAUSE)
       ELSE /\ pc' = "k_aexit"
            /\ UNCHANGED << client, command, kimi >>
    /\ exc' = e
    /\ UNCHANGED << balancer, done, ok, result_holder, result, published, obs >>
    /\ UNCHANGED << asm_vars, dec_vars, cmd_vars, web_vars >>

\* Time passes during a sleep.
KimiTick ==
    /\ pc \in { "k_sleep_2", "k_sleep", "k_sleep_10" }
    /\ kimi.sleep_left > 0
    /\ LET d == Min2(Tick, kimi.sleep_left)
       IN  kimi' = [since_publish |-> Min2(kimi.since_publish + d, UPDATE_INTERVAL),
                    sleep_left |-> kimi.sleep_left - d]
    /\ UNCHANGED << pc, balancer, client, command, done, exc, ok, result_holder, result,
                    published, obs >>
    /\ UNCHANGED << asm_vars, dec_vars, cmd_vars, web_vars >>

\* A sleep is over: the code after it.
KimiWake ==
    /\ pc \in { "k_sleep_2", "k_sleep", "k_sleep_10" }
    /\ kimi.sleep_left = 0
    /\ pc' = CASE pc = "k_sleep_2" -> "k_start_notify"
               [] pc = "k_sleep" -> "k_write_cell_info"
               [] pc = "k_sleep_10" -> "k_connect"
    /\ UNCHANGED << balancer, client, command, done, exc, ok, result_holder, result,
                    published, obs, kimi >>
    /\ UNCHANGED << asm_vars, dec_vars, cmd_vars, web_vars >>

\* client.start_notify(notification_handler).
KimiStartNotify(e) ==
    /\ pc = "k_start_notify"
    /\ IF e = "none"
       THEN /\ client' = [client EXCEPT !.subscribed = TRUE]
            /\ pc' = "k_write_cell_info"
       ELSE /\ client' = client
            /\ pc' = "k_aexit"
    /\ exc' = e
    /\ UNCHANGED << balancer, command, done, ok, result_holder, result, published, obs,
                    kimi >>
    /\ UNCHANGED << asm_vars, dec_vars, cmd_vars, web_vars >>

\* The inner loop: the CellInfo command, then the sleep of UPDATE_INTERVAL.
\* Of the commands of a session the first and the latest are kept; published
\* is what was published since the latest command or connect.
KimiWriteCellInfo(e) ==
    /\ pc = "k_write_cell_info"
    /\ IF e = "none"
       THEN /\ client' = [client EXCEPT !.written =
                   << @[1], build_command(FUNCTION_READ, COMMAND_CELL_INFO, 0, Word(0, 0)) >>]
            /\ command' = COMMAND_CELL_INFO
            /\ published' = << >>
            /\ pc' = "k_sleep"
            /\ StartSleep(UPDATE_INTERVAL)
       ELSE /\ pc' = "k_aexit"
            /\ UNCHANGED << client, command, published, kimi >>
    /\ exc' = e
    /\ UNCHANGED << balancer, done, ok, result_holder, result, obs >>
    /\ UNCHANGED << asm_vars, dec_vars, cmd_vars, web_vars >>

\* A publish_data without the rate limit.
KimiPublishData_unlimited(data, up) ==
    [kimi |-> [kimi EXCEPT !.since_publish = 0],
     published |-> IF up THEN Append(published, data) ELSE published]

\* publish_data(data) of src/neey_mqtt_kimi.py when the broker is up or not:
\* what becomes of the clock and of what was published.
KimiPublishData(data, up) ==
    IF kimi.since_publish < UPDATE_INTERVAL
    THEN [kimi |-> kimi, published |-> published]
    ELSE [kimi |-> [kimi EXCEPT !.since_publish = 0],
          published |-> IF up THEN Append(published, data) ELSE published]

\* notification_handler on the chunk of notification n: a CellInfo record goes
\* to publish_data; an error raised by assemble ends the callback.
KimiNotification(n, up) ==
    /\ pc \in { "k_write_cell_info", "k_sleep" }
    /\ client.subscribed
    /\ n.part = "tail" => obs.session.rx = n.frame
    /\ \E r \in { MqttAssemble(balancer, n.bytes) } :
       /\ balancer' = r.balancer
       /\ \E p \in { IF r.ret.type = "cell_info" THEN KimiPublishData(r.ret, up)
                     ELSE [kimi |-> kimi, published |-> published] } :
             kimi' = p.kimi /\ published' = p.published
       /\ obs' = [obs EXCEPT
              !.ever_cached = @ \/ IsCached(r.balancer),
              !.session.notified = TRUE,
              !.session.rx = IF n.part = "head" THEN n.frame ELSE "none",
              !.session.delivered = @ \/ (n.frame # "none" /\ n.part # "head"),
              !.session.cell = IF r.ret.type = "cell_info"
                               THEN [frame |-> n.frame, cache |-> balancer.device_info]
                               ELSE @]
    /\ UNCHANGED << pc, client, command, done, exc, ok, result_holder, result >>
    /\ UNCHANGED << asm_vars, dec_vars, cmd_vars, web_vars >>

\* BleakClient.__aexit__ on the way of the exception to the handler.
KimiAExit ==
    /\ pc = "k_aexit"
    /\ client' = [client EXCEPT !.open = FALSE, !.is_connected = FALSE,
                               !.subscribed = FALSE]
    /\ pc' = "k_except"
    /\ obs' = [obs EXCEPT !.open_sessions = Max2(@ - 1, 0)]
    /\ UNCHANGED << balancer, command, done, exc, ok, result_holder, result, published,
                    kimi >>
    /\ UNCHANGED << asm_vars, dec_vars, cmd_vars, web_vars >>

\* `except Exception`: the error is logged, then the sleep of 10 s before the
\* outer loop connects again.
KimiExcept ==
    /\ pc = "k_except"
    /\ pc' = "k_sleep_10"
    /\ StartSleep(RECONNECT_PAUSE)
    /\ UNCHANGED << balancer, client, command, done, exc, ok, result_holder, result,
                    published, obs >>
    /\ UNCHANGED << asm_vars, dec_vars, cmd_vars, web_vars >>

KimiNext ==
    \/ \E e \in Outcomes : KimiConnect(e)
    \/ \E e \in Outcomes : KimiWriteDeviceInfo(e)
    \/ KimiTick
    \/ KimiWake
    \/ \E e \in Outcomes : KimiStartNotify(e)
    \/ \E e \in Outcomes : KimiWriteCellInfo(e)
    \/ \E n \in Notifications, up \in BOOLEAN : KimiNotification(n, up)
    \/ KimiAExit
    \/ KimiExcept

SpecKimi == KimiInit /\ [][KimiNext]_vars

\* ------------------------------------------------------------ both services under their scheduler
\* The steps the event loop takes on its own: every await of the services
\* returns or raises (the connect and the wait have timeouts, a sleep ends,
\* a transport call answers or fails), whereas no notification and no
\* disconnect is ever bound to come.
PollStep ==
    \/ FetchOnce
    \/ \E e \in Outcomes : Connect(e)
    \/ \E e \in Outcomes : StartNotify(e)
    \/ \E e \in Outcomes : WriteGattChar(e)
    \/ Timeout
    \/ WaitDone
    \/ \E e \in Outcomes : StopNotify(e)
    \/ AExit
    \/ Return
    \/ Sleep2
    \/ \E raised \in BOOLEAN : MainResult(raised)
    \/ MainNoData
    \/ Sleep

KimiStep ==
    \/ \E e \in Outcomes : KimiConnect(e)
    \/ \E e \in Outcomes : KimiWriteDeviceInfo(e)
    \/ KimiTick
    \/ KimiWake
    \/ \E e \in Outcomes : KimiStartNotify(e)
    \/ \E e \in Outcomes : KimiWriteCellInfo(e)
    \/ KimiAExit
    \/ KimiExcept

LiveInit == Init \/ KimiInit

LiveNext == PollNext \/ KimiNext

SpecLive == LiveInit /\ [][LiveNext]_vars /\ WF_vars(PollStep \/ KimiStep)

\* ------------------------------------------------------------ the dashboard server
\* src/neey_webserver.py: the MQTT thread runs on_message, the main thread
\* serves one HTTP request at a time; both use latest_data and last_update.

STALE_AFTER == 30

\* How many messages arrive.
MaxMessages == 3

\* Python's truth value of latest_data.
Truthy(d) == d # NoneVal /\ ~d.empty

\* The structure do_GET answers with when there is no data.
EmptyStructure ==
    [ type |-> "data", timestamp |-> "", device |-> << >>, battery |-> << >>,
      cells |-> << >>, stale |-> TRUE, last_seen |-> 0 ]

\* on_message up to the `with`: a JSON payload on the topic goes on to the
\* lock, anything else is dropped. The payload is the JSON of a non-empty
\* object, the JSON "{}", or text that is not JSON.
OnMessage(topic, payload) ==
    /\ mqtt_thread.pc = "loop"
    /\ mqtt_thread.arrived < MaxMessages
    /\ mqtt_thread' =
          IF topic = "NEEY/data" /\ payload # "invalid"
          THEN [ pc |-> "lock",
                 data |-> [id |-> mqtt_thread.arrived + 1, empty |-> payload = "empty"],
                 arrived |-> mqtt_thread.arrived + 1 ]
          ELSE [mqtt_thread EXCEPT !.arrived = @ + 1]
    /\ UNCHANGED << latest_data, last_update, data_lock, http_thread, now >>
    /\ UNCHANGED << asm_vars, dec_vars, cmd_vars, poll_vars >>

MqttLock ==
    /\ mqtt_thread.pc = "lock"
    /\ data_lock = "free"
    /\ data_lock' = "mqtt"
    /\ mqtt_thread' = [mqtt_thread EXCEPT !.pc = "set_data"]
    /\ UNCHANGED << latest_data, last_update, http_thread, now >>
    /\ UNCHANGED << asm_vars, dec_vars, cmd_vars, poll_vars >>

MqttSetData ==
    /\ mqtt_thread.pc = "set_data"
    /\ latest_data' = mqtt_thread.data
    /\ mqtt_thread' = [mqtt_thread EXCEPT !.pc = "set_time"]
    /\ UNCHANGED << last_update, data_lock, http_thread, now >>
    /\ UNCHANGED << asm_vars, dec_vars, cmd_vars, poll_vars >>

MqttSetTime ==
    /\ mqtt_thread.pc = "set_time"
    /\ last_update' = [time |-> now, of |-> mqtt_thread.data.id]
    /\ mqtt_thread' = [mqtt_thread EXCEPT !.pc = "unlock"]
    /\ UNCHANGED << latest_data, data_lock, http_thread, now >>
    /\ UNCHANGED << asm_vars, dec_vars, cmd_vars, poll_vars >>

MqttUnlock ==
    /\ mqtt_thread.pc = "unlock"
    /\ data_lock' = "free"
    /\ mqtt_thread' = [mqtt_thread EXCEPT !.pc = "loop"]
    /\ UNCHANGED << latest_data, last_update, http_thread, now >>
    /\ UNCHANGED << asm_vars, dec_vars, cmd_vars, poll_vars >>

\* do_GET up to the `with`; a path other than /data is answered at once.
DoGet(path) ==
    /\ http_thread.pc = "serve"
    /\ http_thread' =
          IF path = "/data"
          THEN [pc |-> "lock", response_data |-> NoneVal, response |-> NoneVal]
          ELSE [ pc |-> "serve", response_data |-> NoneVal,
                 response |-> [type |-> IF path \in { "/", "/index.html" }
                                        THEN "html" ELSE "404"] ]
    /\ UNCHANGED << latest_data, last_update, data_lock, mqtt_thread, now >>
    /\ UNCHANGED << asm_vars, dec_vars, cmd_vars, poll_vars >>

\* A do_GET that goes on without taking the lock.
HttpLock_without_lock ==
    /\ http_thread.pc = "lock"
    /\ http_thread' = [http_thread EXCEPT !.pc = "test"]
    /\ UNCHANGED << latest_data, last_update, data_lock, mqtt_thread, now >>
    /\ UNCHANGED << asm_vars, dec_vars, cmd_vars, poll_vars >>

HttpLock ==
    /\ http_thread.pc = "lock"
    /\ data_lock = "free"
    /\ data_lock' = "http"
    /\ http_thread' = [http_thread EXCEPT !.pc = "test"]
    /\ UNCHANGED << latest_data, last_update, mqtt_thread, now >>
    /\ UNCHANGED << asm_vars, dec_vars, cmd_vars, poll_vars >>

\* `if latest_data:` and the copy, or the empty structure.
HttpTest ==
    /\ http_thread.pc = "test"
    /\ http_thread' =
          IF Truthy(latest_data)
          THEN [http_thread EXCEPT !.pc = "stale", !.response_data = [data |-> latest_data]]
          ELSE [http_thread EXCEPT !.pc = "unlock", !.response = EmptyStructure]
    /\ UNCHANGED << latest_data, last_update, data_lock, mqtt_thread, now >>
    /\ UNCHANGED << asm_vars, dec_vars, cmd_vars, poll_vars >>

\* response_data['stale'] = (time.time() - last_update) > 30
HttpStale ==
    /\ http_thread.pc = "stale"
    /\ http_thread' =
          [http_thread EXCEPT
             !.pc = "last_seen",
             !.response_data = [ data |-> http_thread.response_data.data,
                                 stale |-> (now - last_update.time) > STALE_AFTER,
                                 stale_of |-> last_update.of ]]
    /\ UNCHANGED << latest_data, last_update, data_lock, mqtt_thread, now >>
    /\ UNCHANGED << asm_vars, dec_vars, cmd_vars, poll_vars >>

\* response_data['last_seen'] = int(time.time() - last_update) and json.dumps
HttpLastSeen ==
    /\ http_thread.pc = "last_seen"
    /\ http_thread' =
          [http_thread EXCEPT
             !.pc = "unlock",
             !.response = [ type |-> "data",
                            data |-> http_thread.response_data.data,
                            stale |-> http_thread.response_data.stale,
                            stale_of |-> http_thread.response_data.stale_of,
                            last_seen |-> now - last_update.time,
                            seen_of |-> last_update.of ]]
    /\ UNCHANGED << latest_data, last_update, data_lock, mqtt_thread, now >>
    /\ UNCHANGED << asm_vars, dec_vars, cmd_vars, poll_vars >>

\* The end of the `with` and the write of the response.
HttpUnlock ==
    /\ http_thread.pc = "unlock"
    /\ data_lock' = "free"
    /\ http_thread' = [http_thread EXCEPT !.pc = "serve"]
    /\ UNCHANGED << latest_data, last_update, mqtt_thread, now >>
    /\ UNCHANGED << asm_vars, dec_vars, cmd_vars, poll_vars >>

\* Time passes.
WebTick ==
    /\ now < ClockEnd
    /\ now' = now + ClockStep
    /\ UNCHANGED << latest_data, last_update, data_lock, mqtt_thread, http_thread >>
    /\ UNCHANGED << asm_vars, dec_vars, cmd_vars, poll_vars >>

WebNext ==
    \/ \E topic \in { "NEEY/data", "NEEY/status" } :
           \E payload \in { "object", "empty", "invalid" } : OnMessage(topic, payload)
    \/ MqttLock
    \/ MqttSetData
    \/ MqttSetTime
    \/ MqttUnlock
    \/ \E path \in { "/data", "/", "/favicon.ico" } : DoGet(path)
    \/ HttpLock
    \/ HttpTest
    \/ HttpStale
    \/ HttpLastSeen
    \/ HttpUnlock
    \/ WebTick

SpecWeb == Init /\ [][WebNext]_vars

\* ------------------------------------------------------------ properties of the assembler
\* The last notification completed the delivery of a response frame.
FrameComplete == kind = "frame" /\ Delivered

\* The decoder accepts the frame in delivery (it does not raise on it).
Decodable == DecodeFrame(tx.frame) # IndexError

\* The last call returned what the decoder makes of the frame in delivery,
\* and nothing but that frame was handed to the decoder.
ReturnedItsRecord ==
    /\ ret = DecodeFrame(tx.frame)
    /\ ret # IndexError
    /\ handed = tx.frame

\* The checksum of a candidate, written out: the byte before the terminator is
\* the sum of all bytes before it mod 256.
ChecksumHolds(b) == b[Len(b) - 1] = SumRange(b, 1, Len(b) - 2) % 256

\* C1: a valid frame fed from an empty accumulator, in one chunk or cut
\* anywhere, gives nothing on every chunk but the last and its record on the
\* last.  Stated for the frames the decoder accepts.
C1_ChunkedFrameIsDecoded ==
    (kind = "frame" /\ tx.start = "empty" /\ Decodable) =>
        IF Delivered THEN ReturnedItsRecord ELSE ret = NoneVal

\* C2: a frame with one checksum-covered byte changed makes assemble return
\* nothing and leaves the accumulator empty, and a valid frame fed next in one
\* chunk is decoded.  Stated for the frames the decoder accepts.
C2_ChangedByteIsRejected ==
    /\ kind = "corrupt" => (ret = NoneVal /\ handed = << >> /\ frame_buffer = << >>)
    /\ (FrameComplete /\ tx.n = 1 /\ tx.after = "corrupt" /\ Decodable)
           => ReturnedItsRecord

\* C3: once the accumulator has grown past 300 bytes, a valid frame delivered
\* afterwards in its own chunks is decoded, and none of the bytes accumulated
\* before it take part.  Stated for the frames the decoder accepts.
C3_FrameAfterOverflowIsDecoded ==
    (kind = "frame" /\ tx.start = "over" /\ Decodable) =>
        /\ acc = SubSeq(tx.frame, 1, tx.pos)
        /\ Delivered => ReturnedItsRecord

\* C4: after any history, a single chunk that is a complete valid response
\* frame makes assemble return the record of that frame.
C4_SingleChunkFrameResyncs ==
    (FrameComplete /\ tx.n = 1) => ReturnedItsRecord

\* C5: assemble hands bytes to the decoder, or ends with anything but nothing,
\* only in a call whose accumulator after the append has at least 20 bytes,
\* ends in 0xFF and carries the right checksum; what it hands over is that
\* accumulator.
C5_DecoderOnlyOnValidCandidate ==
    (handed # << >> \/ ret # NoneVal) =>
        /\ Len(acc) >= 20
        /\ acc[Len(acc)] = 255
        /\ ChecksumHolds(acc)
        /\ handed = acc

\* C5 happens: a frame arrived in two notifications and was decoded, and a
\* complete candidate with a wrong checksum was turned down before it.
C5_Witness ==
    /\ FrameComplete
    /\ tx.n = 2
    /\ tx.after = "corrupt"
    /\ handed = acc
    /\ ret.type = "device_info"

\* C6: after every call the accumulator holds at most 300 bytes, and no frame
\* longer than 300 bytes is handed to the decoder.
C6_AccumulatorAtMost300 ==
    /\ Len(frame_buffer) <= 300
    /\ Len(handed) <= 300

\* The accumulator a call on the chunk c starts from: the earlier one, emptied
\* when it held more than 300 bytes or when c begins with 0x55 0xAA.
KeptBefore(c) ==
    IF \/ Len(frame_buffer) > 300
       \/ Len(c) >= 2 /\ c[1] = 85 /\ c[2] = 170
    THEN << >> ELSE frame_buffer

\* C33: a call of assemble that finds no complete candidate frame returns
\* nothing and leaves the accumulator equal to the earlier accumulator (first
\* emptied if it held more than 300 bytes or if the chunk begins with 0x55
\* 0xAA) followed by the chunk: no byte of the chunk is lost or reordered.
C33_IncompleteChunkIsAppended ==
    [][LET cand == KeptBefore(chunk') \o chunk'
       IN  ~(Len(cand) >= 20 /\ cand[Len(cand)] = 255) =>
              /\ ret' = NoneVal
              /\ handed' = << >>
              /\ frame_buffer' = cand]_vars

\* A chunk has just been appended to earlier bytes without completing a frame.
C33_Witness ==
    /\ ~(Len(acc) >= 20 /\ acc[Len(acc)] = 255)
    /\ ret = NoneVal
    /\ chunk # << >>
    /\ Len(chunk) < Len(frame_buffer)
    /\ SubSeq(frame_buffer, Len(frame_buffer) - Len(chunk) + 1, Len(frame_buffer)) = chunk

\* C34: every frame assemble hands to the decoder begins with the response
\* start marker 0x55 0xAA; a request frame made by build_command (start marker
\* 0xAA 0x55) that is fed to assemble is not handed to the decoder and no
\* record is returned for it.
C34_OnlyResponsesAreDecoded ==
    /\ handed # << >> => (handed[1] = 85 /\ handed[2] = 170)
    /\ kind = "request" => (handed = << >> /\ ret = NoneVal)

\* ------------------------------------------------------------ properties of the command builder
\* C7: build_command returns 20 bytes: 0xAA, 0x55, 0x11, the function, the
\* command, the register address, 0x14, 0x00, the value little-endian, six
\* zero bytes, the sum of bytes 0..17 mod 256, 0xFF; for READ, CELL_INFO with
\* the default register and value the checksum byte is 0x27.
C7_BuildCommandLayout ==
    cmd_out # << >> =>
        /\ Len(cmd_out) = 20
        /\ \A i \in 1..20 : cmd_out[i] \in 0..255
        /\ cmd_out[1] = 170
        /\ cmd_out[2] = 85
        /\ cmd_out[3] = 17
        /\ cmd_out[4] = cmd_in.function
        /\ cmd_out[5] = cmd_in.command
        /\ cmd_out[6] = cmd_in.register_address
        /\ cmd_out[7] = 20
        /\ cmd_out[8] = 0
        /\ cmd_out[9] + 256 * cmd_out[10] = cmd_in.value.lo
        /\ cmd_out[11] + 256 * cmd_out[12] = cmd_in.value.hi % 65536
        /\ \A i \in 13..18 : cmd_out[i] = 0
        /\ cmd_out[19] = SumRange(cmd_out, 1, 18) % 256
        /\ cmd_out[20] = 255
        /\ (/\ cmd_in.function = 1
            /\ cmd_in.command = 2
            /\ cmd_in.register_address = 0
            /\ cmd_in.value = Word(0, 0)) => cmd_out[19] = 39

\* C7 happens: a write of the value 0x12345678 to register 7 was built.
C7_Witness ==
    /\ cmd_in.function = 0
    /\ cmd_in.command = 5
    /\ cmd_in.register_address = 7
    /\ cmd_in.value = Word(4660, 22136)
    /\ Len(cmd_out) = 20
    /\ SubSeq(cmd_out, 9, 12) = << 120, 86, 52, 18 >>

\* C38: multi-byte fields are read little-endian, get_16bit = d[i] +
\* 256*d[i+1], get_24bit = d[i] + 256*d[i+1] + 65536*d[i+2], get_32bit = d[i] +
\* 256*d[i+1] + 65536*d[i+2] + 16777216*d[i+3] (as its two 16-bit halves); for
\* a value v below 2^32, get_32bit(build_command(f, c, r, v), 8) = v, and a
\* value of 2^32 or more is encoded as v mod 2^32.
C38_LittleEndianRoundTrip ==
    cmd_out # << >> =>
        /\ \A i \in 0..18 :
              get_16bit(cmd_out, i) = cmd_out[i + 1] + 256 * cmd_out[i + 2]
        /\ \A i \in 0..17 :
              get_24bit(cmd_out, i) =
                  cmd_out[i + 1] + 256 * cmd_out[i + 2] + 65536 * cmd_out[i + 3]
        /\ \A i \in 0..16 :
              get_32bit(cmd_out, i) = Word(cmd_out[i + 3] + 256 * cmd_out[i + 4],
                                           cmd_out[i + 1] + 256 * cmd_out[i + 2])
        /\ cmd_in.value.hi < 65536 => get_32bit(cmd_out, 8) = cmd_in.value
        /\ get_32bit(cmd_out, 8) = Word(cmd_in.value.hi % 65536, cmd_in.value.lo)

\* The value 2^32 + 0x12345678 has been encoded as 0x12345678.
C38_Witness ==
    /\ cmd_in.value = Word(65536 + 4660, 22136)
    /\ Len(cmd_out) = 20
    /\ get_32bit(cmd_out, 8) = Word(4660, 22136)

\* ------------------------------------------------------------ properties of the decoders
\* The frame given to the decoders is a CellInfo frame of full length.
IsCellInfo == Len(dec_in) >= 258 /\ At(dec_in, 4) = 2

\* The slots whose voltage is strictly positive.
ActiveSlots == { k \in 1..24 : FGt(CellVoltage(dec_in, k - 1), Zero) }

\* Every slot that is not active reads zero or negative.
OthersNotPositive ==
    \A k \in (1..24) \ ActiveSlots :
        \/ FEq(CellVoltage(dec_in, k - 1), Zero)
        \/ FLt(CellVoltage(dec_in, k - 1), Zero)

\* An explicit no-data value: not a number.
NoData(x) == x = NaN \/ x = NoneVal

\* C8: a CellInfo frame whose 24 voltages are all zero decodes to an active
\* count of 0 and to no-data, not the number zero, for the minimum, maximum,
\* average and delta - in src/deepwiki.py (which reports no count) and in the
\* decoder of the MQTT services.
C8_AllZeroIsNoData ==
    (IsCellInfo /\ \A k \in 1..24 : FEq(CellVoltage(dec_in, k - 1), Zero)) =>
        /\ dec_out # Pending =>
              /\ NoData(dec_out.min_cell_voltage)
              /\ NoData(dec_out.max_cell_voltage)
              /\ NoData(dec_out.average_cell_voltage)
              /\ NoData(dec_out.delta_cell_voltage)
        /\ mq_out # Pending =>
              /\ mq_out.cell_count = 0
              /\ NoData(mq_out.min_cell_voltage)
              /\ NoData(mq_out.max_cell_voltage)
              /\ NoData(mq_out.average_cell_voltage)
              /\ NoData(mq_out.delta_cell_voltage)

\* C9: a CellInfo frame with exactly one strictly positive voltage v, at slot
\* k, and zero or negative voltages elsewhere decodes in src/deepwiki.py to
\* minimum = maximum = average = v, delta = 0 and both indices = k.  Stated
\* for finite v.
C9_SingleActiveCell ==
    (/\ IsCellInfo
     /\ Cardinality(ActiveSlots) = 1
     /\ \A k \in ActiveSlots : CellVoltage(dec_in, k - 1).k = "num"
     /\ OthersNotPositive
     /\ dec_out # Pending) =>
        LET k == CHOOSE x \in ActiveSlots : TRUE
            v == CellVoltage(dec_in, k - 1)
        IN  /\ dec_out.min_cell_voltage = v
            /\ dec_out.max_cell_voltage = v
            /\ dec_out.average_cell_voltage = v
            /\ FEq(dec_out.delta_cell_voltage, Zero)
            /\ dec_out.min_voltage_cell = k
            /\ dec_out.max_voltage_cell = k

\* C30: in the record decode_cell_info of src/deepwiki.py makes of a CellInfo
\* frame, the minimum index and the maximum index are slots of active cells
\* that hold the least and the greatest active voltage, and those voltages
\* are the minimum and the maximum reported; when no cell is active neither
\* index is a slot number or zero.  Stated for finite active voltages and
\* zero or negative voltages elsewhere.
C30_IndicesOfActiveCells ==
    (/\ IsCellInfo
     /\ dec_out # Pending
     /\ OthersNotPositive
     /\ \A k \in ActiveSlots : CellVoltage(dec_in, k - 1).k = "num") =>
        IF ActiveSlots = {}
        THEN /\ dec_out.min_voltage_cell \notin 0..NUM_CELLS
             /\ dec_out.max_voltage_cell \notin 0..NUM_CELLS
        ELSE /\ dec_out.min_voltage_cell \in ActiveSlots
             /\ dec_out.max_voltage_cell \in ActiveSlots
             /\ dec_out.min_cell_voltage = CellVoltage(dec_in, dec_out.min_voltage_cell - 1)
             /\ dec_out.max_cell_voltage = CellVoltage(dec_in, dec_out.max_voltage_cell - 1)
             /\ \A k \in ActiveSlots :
                   /\ ~FLt(CellVoltage(dec_in, k - 1), dec_out.min_cell_voltage)
                   /\ ~FGt(CellVoltage(dec_in, k - 1), dec_out.max_cell_voltage)

\* The record variant the byte at offset 4 stands for.
VariantOf(t) ==
    IF t = 1 THEN "device_info"
    ELSE IF t = 2 THEN "cell_info"
    ELSE IF t = 3 THEN "factory_defaults"
    ELSE IF t = 4 THEN "settings"
    ELSE IF t = 5 THEN "write_ack"
    ELSE "None"

\* C10: the variant _decode of src/deepwiki.py produces is the one the byte at
\* offset 4 stands for, whatever the other bytes of the frame are; a byte
\* outside 1..5 gives the outcome without data.
C10_DispatchOnTypeByte ==
    dec_out # Pending =>
        /\ dec_out.type = VariantOf(At(dec_in, 4))
        /\ dec_out.type = "None" => dec_out = NoneVal

\* The accumulator of the last call, after the append, was a complete
\* candidate frame: 20 or more bytes ending in 0xFF.
CompleteCandidate == Len(acc) >= MIN_RESPONSE_SIZE /\ acc[Len(acc)] = END_OF_FRAME

\* C22: no call of assemble ends with a raised error, and after a call whose
\* accumulator was a complete candidate frame the accumulator is empty.
C22_AssembleNeverRaises ==
    /\ ret # IndexError
    /\ CompleteCandidate => frame_buffer = << >>

\* The type byte of a frame is none of 0x01..0x05.
UnknownType(F) == At(F, 4) \notin COMMAND_DEVICE_INFO..COMMAND_WRITE_REGISTER

IsSettings == Len(dec_in) >= 32 /\ At(dec_in, 4) = COMMAND_SETTINGS

\* The entry of a name table at a raw index, "Unknown" from the bound on.
NameAt(table, bound, raw) == IF raw < bound THEN table[raw + 1] ELSE "Unknown"

\* C31: every raw byte 0..255 of an enumerated field decodes to a name and the
\* decoder does not fail: an operation status below 13, a buzzer mode below 4
\* and a battery type below 5 give the table entry at that index, a larger
\* byte gives "Unknown"; the balancing flag of a CellInfo record is true
\* exactly when the operation status name is "Balancing", which is raw 5.
C31_EnumBytesAlwaysNamed ==
    /\ (IsCellInfo /\ dec_out # Pending) =>
          /\ dec_out # IndexError
          /\ dec_out.operation_status = NameAt(OPERATION_STATUS, 13, At(dec_in, 216))
          /\ dec_out.balancing = (dec_out.operation_status = "Balancing")
          /\ dec_out.balancing = (At(dec_in, 216) = 5)
    /\ (IsSettings /\ dec_out # Pending) =>
          /\ dec_out # IndexError
          /\ dec_out.buzzer_mode = NameAt(BUZZER_MODES, 4, At(dec_in, 22))
          /\ dec_out.battery_type = NameAt(BATTERY_TYPES, 5, At(dec_in, 23))

\* A CellInfo frame with status byte 200, past the table, was decoded.
C31_Witness ==
    /\ IsCellInfo /\ dec_out # Pending
    /\ At(dec_in, 216) = 200
    /\ dec_out.operation_status = "Unknown" /\ ~dec_out.balancing

\* C32: decoding is a pure function of the frame: it changes no assembler or
\* orchestrator state, and the record returned depends only on the bytes of
\* the frame, not on a frame decoded earlier (a new instance, whose
\* device_info is empty, returns the same record).
C32_DecodingIsPure ==
    [][ /\ dec_out' # dec_out =>
              /\ dec_out' = DecodeFrame(dec_in)
              /\ UNCHANGED << asm_vars, poll_vars, mq_cache >>
        /\ mq_out' # mq_out =>
              /\ mq_out' = MqttDecode(EmptyDict, dec_in).ret
              /\ UNCHANGED << asm_vars, poll_vars, mq_cache >> ]_vars

IsFactoryDefaults ==
    Len(dec_in) >= 20 /\ At(dec_in, 4) = COMMAND_FACTORY_DEFAULTS /\ dec_out # Pending

\* The names of the calibration fields of a FactoryDefaults record.
CalibrationFields ==
    { "standard_voltage_1", "standard_voltage_2", "battery_voltage_1",
      "battery_voltage_2", "standard_current_1", "standard_current_2",
      "superbat_1", "superbat_2", "resistor_1", "battery_status", "max_voltage",
      "min_voltage", "max_temperature", "min_temperature", "power_on_counter",
      "total_runtime", "production_date" }

\* C36: a FactoryDefaults frame of exactly 20 bytes decodes to a record of
\* type factory_defaults with no data fields, and a FactoryDefaults frame of
\* any other length the assembler accepts decodes to the full set of
\* calibration fields, read at their fixed offsets.
C36_FactoryDefaultsByLength ==
    IsFactoryDefaults =>
        IF Len(dec_in) = 20
        THEN dec_out = [type |-> "factory_defaults"]
        ELSE /\ dec_out # IndexError
             /\ DOMAIN dec_out = CalibrationFields \cup { "type" }
             /\ dec_out.type = "factory_defaults"
             /\ dec_out.standard_voltage_1 = ieee_float(get_32bit(dec_in, 8))
             /\ dec_out.min_temperature = ieee_float(get_32bit(dec_in, 60))
             /\ dec_out.power_on_counter = get_32bit(dec_in, 64)
             /\ dec_out.total_runtime = get_32bit(dec_in, 68)

\* ------------------------------------------------------------ properties of the polling service

\* The request of the current session has returned to fetch_once and
\* fetch_once has returned to main.
CycleReturned == pc \in { "main", "sleep" }

\* C11: when a valid CellInfo frame has been delivered in a CellInfo session
\* and the link then drops, the completion predicate has fired and the cycle
\* returns the decoded CellInfo record.
C11_FrameThenDisconnectIsCompleted ==
    (command = COMMAND_CELL_INFO /\ obs.session.delivered /\ obs.session.dropped) =>
        /\ obs.session.fired
        /\ CycleReturned => result.type = "cell_info"

\* C12: when no notification arrived before the wait timed out, the session
\* is closed and its subscription gone when the request returns, and the cycle
\* returns no record.
C12_TimeoutReturnsNoRecord ==
    (obs.session.timed_out /\ ~obs.session.notified) =>
        /\ pc \in { "return", "main", "sleep" } => ~client.open /\ ~client.subscribed
        /\ CycleReturned => result = NoneVal

\* C13: when the link drops before the completion predicate has fired, the
\* Event is set at once (the wait cannot time out any more), and the cycle
\* returns what a timed-out cycle returns: no record, no error reported.
C13_EarlyDisconnectIsLikeTimeout ==
    (obs.session.dropped /\ ~obs.session.fired) =>
        /\ pc = "wait_for" => done /\ ~ENABLED Timeout
        /\ ~obs.session.timed_out
        /\ CycleReturned => result = NoneVal /\ ok

C13_Witness ==
    /\ pc = "main"
    /\ command = COMMAND_CELL_INFO
    /\ obs.session.dropped
    /\ obs.session.notified
    /\ ~obs.session.fired

\* C14: when the connect fails, nothing is subscribed and nothing written,
\* the request reports failure (returns False) and the cycle returns no
\* record.
C14_ConnectFailureIsReported ==
    (exc # "none" /\ ~obs.session.opened /\ pc \in { "return", "main", "sleep" }) =>
        /\ ~client.subscribed
        /\ client.written = << >>
        /\ CycleReturned => ~ok /\ result = NoneVal

\* C15: once a request has returned its session is closed, whichever way the
\* session ended; and when stop_notify failed the request still reports no
\* error and the cycle returns what the completion predicate stored.
C15_EverySessionIsClosed ==
    /\ pc \in { "return", "main", "sleep", "sleep_2", "fetch_once", "connect" } =>
          ~client.open /\ ~client.subscribed /\ obs.open_sessions = 0
    /\ (obs.session.unsubscribe = "failed" /\ pc \in { "main", "sleep", "sleep_2" }) =>
          /\ ok
          /\ command = COMMAND_CELL_INFO => result = result_holder

C15_Witness ==
    /\ pc = "main"
    /\ obs.session.opened
    /\ obs.session.timed_out
    /\ obs.session.unsubscribe = "failed"

\* C16: at most one session is open, and a session is opened only when none
\* is open.
C16_AtMostOneSession ==
    /\ obs.open_sessions <= 1
    /\ client.open <=> obs.open_sessions = 1
    /\ pc = "connect" => obs.open_sessions = 0

C16_Witness ==
    /\ pc = "start_notify"
    /\ client.open
    /\ command = COMMAND_CELL_INFO
    /\ Len(obs.requests) = 2

\* C17: no failed cycle ends the polling loop.  In src/neey_mqtt_claude.py
\* every call of fetch_once is followed by the inter-cycle sleep and every
\* inter-cycle sleep by the connect of the next cycle; in src/neey_mqtt_kimi.py
\* every error is followed by the sleep of 10 s and that by the next connect,
\* and every sleep of the inner loop by the next CellInfo command.
C17_LoopSurvivesFailedCycles ==
    /\ (pc = "fetch_once") ~> (pc = "sleep")
    /\ (pc = "sleep") ~> (pc = "connect")
    /\ (pc \in { "k_aexit", "k_except" }) ~> (pc = "k_sleep_10")
    /\ (pc = "k_sleep_10") ~> (pc = "k_connect")
    /\ (pc = "k_sleep") ~> (pc = "k_write_cell_info")

\* The connect of a cycle that follows a cycle whose connect failed.
C17_Witness ==
    /\ pc = "connect"
    /\ exc = "none"
    /\ ~obs.session.opened
    /\ ~ok

\* C18: a cycle begins with a DeviceInfo request exactly when no DeviceInfo
\* record had been cached before it began; a DeviceInfo request is never
\* made, and a DeviceInfo session never open, in a cycle that began with the
\* cache filled.
C18_DeviceInfoOnlyUntilCached ==
    /\ obs.requests # << >> =>
          (obs.requests[1] = COMMAND_DEVICE_INFO <=> ~obs.cached_at_start)
    /\ \A i \in 2..Len(obs.requests) : obs.requests[i] = COMMAND_CELL_INFO
    /\ (obs.cached_at_start /\ pc \notin { "fetch_once" }) => command = COMMAND_CELL_INFO
    /\ obs.ever_cached <=> IsCached(balancer)

C18_Witness ==
    /\ pc = "wait_for"
    /\ obs.cached_at_start
    /\ obs.requests = << COMMAND_CELL_INFO >>
    /\ Len(client.written) = 1
    /\ client.written[1][5] = COMMAND_CELL_INFO

\* C19: no session is opened straight after the close of a session: the
\* settle pause or the inter-cycle sleep lies between the close and the next
\* connect.
C19_PauseBetweenSessions ==
    pc = "connect" => ~obs.unpaused

\* The connect of the CellInfo session of a cycle whose DeviceInfo session has
\* been closed.
C19_Witness ==
    /\ pc = "connect"
    /\ command = COMMAND_CELL_INFO
    /\ Len(obs.requests) = 2
    /\ obs.session.opened
    /\ obs.session.fired

\* C20: at most one record is published in a cycle, and it is the CellInfo
\* record decoded from the frame received in the CellInfo session of that
\* cycle, carrying the model, hardware version and software version that
\* were cached when it was decoded.
C20_PublishedIsThisCyclesRecord ==
    /\ Len(published) <= 1
    /\ \A i \in 1..Len(published) :
          /\ command = COMMAND_CELL_INFO
          /\ obs.session.fired
          /\ obs.session.cell # NoneVal
          /\ published[i].type = "cell_info"
          /\ published[i] = MqttDecode(obs.session.cell.cache,
                                       FrameOf(obs.session.cell.frame)).ret
          /\ published[i].model = obs.session.cell.cache.model
          /\ published[i].hw_version = obs.session.cell.cache.hw_version
          /\ published[i].sw_version = obs.session.cell.cache.sw_version
    /\ (pc = "sleep" /\ result = NoneVal) => published = << >>

C20_Witness ==
    /\ pc = "sleep"
    /\ Len(published) = 1
    /\ published[1].operation_status = 6
    /\ Len(published[1].model) > 0
    /\ Len(obs.requests) = 2

\* C24: a command is written to the device only while the notification
\* handler is subscribed (src/neey_mqtt_claude.py and src/neey_mqtt_kimi.py).
C24_HandlerBeforeCommand ==
    [][(client'.written # client.written /\ client'.written # << >>)
          => client.subscribed]_vars

\* C25: a CellInfo request is made only with DeviceInfo cached; after a
\* DeviceInfo request it follows only if that request reported no error, and
\* a cycle that gave up after its DeviceInfo request returns no record; a
\* cycle that began with the cache filled makes the CellInfo request alone.
C25_CellInfoOnlyWhenCached ==
    /\ (command = COMMAND_CELL_INFO /\ pc # "fetch_once") => IsCached(balancer)
    /\ Len(obs.requests) = 2 =>
          /\ obs.requests = << COMMAND_DEVICE_INFO, COMMAND_CELL_INFO >>
          /\ ~obs.cached_at_start
          /\ pc \in { "connect", "start_notify", "write_gatt_char", "wait_for" } => ok
    /\ (command = COMMAND_DEVICE_INFO /\ CycleReturned) =>
          /\ result = NoneVal
          /\ ~ok \/ ~IsCached(balancer)
          /\ obs.requests = << COMMAND_DEVICE_INFO >>
    /\ (obs.cached_at_start /\ obs.requests # << >>) =>
          obs.requests = << COMMAND_CELL_INFO >>
    /\ Len(obs.requests) <= 2

\* A cycle that began without the cache and gave up after a DeviceInfo
\* session that received a CellInfo frame only.
C25_Witness ==
    /\ pc = "main"
    /\ command = COMMAND_DEVICE_INFO
    /\ obs.session.delivered
    /\ ~IsCached(balancer)
    /\ ok

\* C26: in one session at most one command is written, the command of the
\* request; the command is written only straight after the subscription, and
\* a connect is made only at the start of a request, so that neither happens
\* again after a timeout or a disconnect.
C26_OneCommandPerSession ==
    [][/\ Len(client'.written) <= 1
       /\ (client'.open /\ client'.written # << >>) =>
             client'.written[1] = build_command(FUNCTION_READ, command', 0, Word(0, 0))
       /\ client'.written # client.written =>
             \/ client'.written = << >>
             \/ pc = "write_gatt_char" /\ client.written = << >>
                   /\ ~obs.session.timed_out /\ ~obs.session.dropped
       /\ (pc' = "connect" /\ pc # "connect") => pc \in { "fetch_once", "sleep_2" }
       /\ (pc' = "write_gatt_char" /\ pc # "write_gatt_char") => pc = "start_notify"]_vars

\* A session that timed out with its one command written.
C26_Witness ==
    /\ pc = "stop_notify"
    /\ obs.session.timed_out
    /\ Len(client.written) = 1

\* C27: every request returns: a request that has begun reaches its return,
\* and a wait ends - by the Event when the predicate fired or the link
\* dropped, by the timeout otherwise, whatever notifications arrive.
C27_EveryRequestReturns ==
    /\ (pc = "connect") ~> (pc = "return")
    /\ (pc = "wait_for") ~> (pc \in { "stop_notify", "aexit" })
    /\ (pc = "wait_for" /\ done) ~> (pc \in { "stop_notify", "aexit" }
                                        /\ ~obs.session.timed_out)

\* A request returned after a wait in which notifications arrived and none
\* completed a frame.
C27_Witness ==
    /\ pc = "return"
    /\ obs.session.timed_out
    /\ obs.session.notified
    /\ ~obs.session.delivered
    /\ ~obs.session.fired

\* C28: when a session is opened the accumulator is empty.
C28_AccumulatorEmptyAtOpen ==
    pc = "start_notify" => balancer.frame_buffer = << >>

\* C29: a cycle whose CellInfo wait timed out returns no record.
C29_NoRecordAfterTimeout ==
    (command = COMMAND_CELL_INFO /\ obs.session.timed_out /\ CycleReturned)
        => result = NoneVal

\* The frames of type DeviceInfo the device delivers in one notification.
DeviceInfoTypeFrames ==
    { n.bytes : n \in { m \in Notifications :
                           m.part = "whole" /\ At(m.bytes, 4) = COMMAND_DEVICE_INFO } }

\* C35: the cached DeviceInfo, once non-empty, never becomes empty again, and
\* its content changes only when a checksum-valid frame of type DeviceInfo is
\* decoded: every other step (a frame of another type, a rejected frame, a
\* failed or timed-out cycle) leaves it unchanged.
C35_CacheOnlyChangedByDeviceInfo ==
    [][ /\ IsCached(balancer) => IsCached(balancer')
        /\ balancer'.device_info # balancer.device_info =>
              /\ pc \in { "wait_for", "stop_notify" } /\ pc' = pc
              /\ balancer'.frame_buffer = << >>
              /\ \E F \in DeviceInfoTypeFrames :
                    /\ ChecksumHolds(F)
                    /\ balancer'.device_info = MqttDecode(EmptyDict, F).device_info ]_vars

\* A cycle that began with the cache filled has failed, and the cache is
\* still filled.
C35_Witness ==
    /\ pc = "main"
    /\ obs.cached_at_start
    /\ result = NoneVal
    /\ obs.session.timed_out
    /\ IsCached(balancer)

\* ------------------------------------------------------------ properties of the rate-limited service

\* C21: a call of publish_data reaches the MQTT publish step only when
\* UPDATE_INTERVAL has passed since last_publish_time, and it sets
\* last_publish_time to the present; last_publish_time is never older than
\* the latest call that reached the publish step, so two such calls lie at
\* least UPDATE_INTERVAL apart.
C21_OncePerUpdateInterval ==
    [][Len(published') > Len(published) =>
          /\ kimi.since_publish >= UPDATE_INTERVAL
          /\ kimi'.since_publish = 0
          /\ Len(published') = Len(published) + 1]_vars

\* Two records were published during one sleep of the inner loop: one at its
\* start and one at its end, UPDATE_INTERVAL later, with the second frame
\* decoded straight after the publish.
C21_Witness ==
    /\ pc = "k_sleep"
    /\ Len(published) = 2
    /\ kimi.since_publish = 0
    /\ kimi.sleep_left = 0

\* ------------------------------------------------------------ properties of the dashboard server
\* C37: the latest data and its arrival time are updated together and read
\* together under one lock: outside on_message's locked block the two belong
\* to the same message, an answer of GET /data never combines the data of one
\* message with the arrival time of another, and before any message has
\* arrived GET /data answers with the empty structure, marked stale.
C37_DataAndTimeOfOneMessage ==
    LET r == http_thread.response
    IN  /\ (data_lock # "mqtt" /\ latest_data # NoneVal) =>
              latest_data.id = last_update.of
        /\ (r.type = "data" /\ r # EmptyStructure) =>
              /\ r.data.id = r.stale_of
              /\ r.data.id = r.seen_of
        /\ (mqtt_thread.arrived = 0 /\ r.type = "data") =>
              (r = EmptyStructure /\ r.stale /\ r.last_seen = 0)

\* GET /data has answered with the second message's data, stale, while a
\* third message is inside on_message.
C37_Witness ==
    /\ http_thread.response.type = "data"
    /\ http_thread.response # EmptyStructure
    /\ http_thread.response.data.id = 2
    /\ http_thread.response.stale
    /\ mqtt_thread.pc = "lock"
    /\ mqtt_thread.arrived = 3

====
